---------------------------- MODULE Spec2Model ----------------------------
(***************************************************************************)
(* A model of the AI service of jose6685/jesus-letters:                    *)
(*   - BackendAIService (src/server/routes/ai.js): the orchestrator        *)
(*     generateResponse / tryFallbackService / generateFallbackResponse,   *)
(*     the normalizer parseResponse with its helper cascade, and the       *)
(*     enhancer validateAndEnhanceResponse;                                *)
(*   - SimplifiedAIService (src/src/services/SimplifiedAIService.js):      *)
(*     parseResponse / extractWithRegex / validateAndEnhanceResponse.      *)
(*                                                                         *)
(* Text.  A JavaScript string is a sequence of atoms.  An atom stands for  *)
(* one character ("{", "Q" the double quote, "BS" the backslash, "NL" the  *)
(* newline, "x" a letter, ...) or for a fixed run of characters that the   *)
(* code only ever treats as a whole (a field name, a canned paragraph, a   *)
(* keyword the code searches for).  Width gives the number of UTF-16 code  *)
(* units of an atom, so StrLen is JavaScript's .length.                    *)
(*                                                                         *)
(* Values.  A JavaScript value is a record with a tag t: "undef", "null",  *)
(* "bool", "num", "str", "arr", "obj".  An object is a function from keys  *)
(* (strings) to values.  A computation that can throw returns a record     *)
(* [ok |-> BOOLEAN, v |-> value].                                          *)
(***************************************************************************)
EXTENDS Integers, Sequences, FiniteSets, TLC

(***************************************************************************)
(* Strings                                                                 *)
(***************************************************************************)

\* Atoms that stand for more than one character, with their length.
\* Every other atom is one character wide.
WideAtoms ==
  [ FENCE |-> 3, json |-> 4, null |-> 4, true |-> 4, false |-> 5,
    jesusLetter |-> 11, guidedPrayer |-> 12, biblicalReferences |-> 18,
    coreMessage |-> 11, verse |-> 5, text |-> 4, metadata |-> 8,
    X100 |-> 100,
    Sam |-> 3, WORK |-> 2, HEALTH |-> 2, MISC |-> 4,
    PRAY_OPEN |-> 6, IF_WILLING |-> 13, DEAR_FATHER |-> 5, AMEN |-> 3,
    IN_JESUS_NAME |-> 7,
    PEACE |-> 2, WISDOM |-> 2, STRENGTH |-> 2, HOPE |-> 2, GRACE |-> 2,
    \* enhanceJesusLetter's paragraph
    LE_a |-> 7, LE_b |-> 171, LE_c |-> 14,
    \* enhanceGuidedPrayer's paragraph
    PE_a |-> 11, PE_b |-> 21, PE_c |-> 5, PE_d |-> 55, PE_e |-> 12,
    PE_f |-> 72, PE_g |-> 215,
    INS_PEACE |-> 10, INS_WISDOM |-> 10, INS_STRENGTH |-> 8, INS_HOPE |-> 10,
    INS_GRACE |-> 10,
    CTX_WORK |-> 6, NEEDS_WORK |-> 25, CTX_HEALTH |-> 6, NEEDS_HEALTH |-> 23,
    CTX_ANY |-> 6, NEEDS_ANY |-> 8,
    \* validateAndEnhanceResponse's defaults
    DL_a |-> 3, DL_b |-> 22, DP_a |-> 44, DP_b |-> 9, DP_c |-> 12, DP_d |-> 6,
    DP_e |-> 2, DP_f |-> 49, DEFAULT_CORE |-> 10, UNKNOWN_VERSE |-> 2,
    REF_TEXT |-> 11, REF_CONTEXT |-> 4, REF_MEANING |-> 4, REF_APPLICATION |-> 4,
    \* the parser's canned defaults
    RC_LETTER |-> 25, RC_PRAYER_a |-> 7, RC_PRAYER_b |-> 7,
    CT_PRAYER_a |-> 17, CS_LETTER |-> 20,
    \* citations
    John_3_16 |-> 9, Psalm_23_1 |-> 7, Phil_4_13 |-> 9, Rom_8_28 |-> 8,
    Isa_40_31 |-> 10,
    Eccl_3_1 |-> 7, Prov_16_3 |-> 7, Col_3_23 |-> 9, Phil_4_19 |-> 9, Eph_2_10 |-> 9,
    Isa_53_5 |-> 9, Psalm_103_2 |-> 10, James_5_14 |-> 11, John3_1_2 |-> 8,
    Exod_15_26 |-> 10,
    Heb_11_1 |-> 9, Rom_10_17 |-> 9, James_1_6 |-> 7, Mark_9_23 |-> 9, Eph_2_8 |-> 10,
    \* generateFallbackResponse's reply
    FL_a |-> 3, FL_b |-> 35, FL_c |-> 73, FL_d |-> 5, FL_e |-> 44,
    FP_d |-> 8, FP_e |-> 35, FP_f |-> 35, FP_g |-> 18, FP_h |-> 34, FP_i |-> 89,
    FP_j |-> 81, FP_k |-> 21,
    HID_WORK |-> 14, HID_HEALTH |-> 12, HID_ANY |-> 5,
    FB_REF1 |-> 38, FB_REF2 |-> 26, FB_REF3 |-> 29, FB_CORE |-> 17, FB_ERROR |-> 9,
    SDP_a |-> 6, SLE_d |-> 5, SPE_a |-> 10, SPE_c |-> 26, SPE_d |-> 9, SPE_e |-> 27,
    SPE_f |-> 17, SPE_g |-> 141, MOM |-> 2, EXAM |-> 2,
    FATHER |-> 2, DAD |-> 2, MOTHER |-> 2, BIRTHDAY |-> 2, INTERVIEW |-> 2, SURGERY |-> 2,
    COV_LP_a |-> 4, COV_LP_b |-> 7, COV_LP_c |-> 6, COV_PP_a |-> 8, COV_PP_b |-> 6,
    COV_LE_a |-> 2, COV_LE_b |-> 5, COV_LE_c |-> 12, COV_PE_a |-> 5, COV_PE_b |-> 5,
    COV_PE_c |-> 14,
    \* generateFallbackResponse of SimplifiedAIService
    SFL_b |-> 9, SFL_c |-> 268, SFP_a |-> 18, SFP_b |-> 68, SFP_c |-> 245 ]

Width(a) == IF a \in DOMAIN WideAtoms THEN WideAtoms[a] ELSE 1

RECURSIVE StrLen(_)
\* String.prototype.length: the widths of the atoms, summed by halves
StrLen(s) ==
  IF s = <<>> THEN 0
  ELSE IF Len(s) = 1 THEN Width(s[1])
  ELSE LET h == Len(s) \div 2
       IN StrLen(SubSeq(s, 1, h)) + StrLen(SubSeq(s, h + 1, Len(s)))

\* \s of the regular expressions, and the characters trim() removes
IsWs(a) == a \in {"SP", "NL"}

Min(S) == CHOOSE x \in S : \A y \in S : x <= y
Max(S) == CHOOSE x \in S : \A y \in S : x >= y

\* s from position i on (1-based); the empty string past the end
From(s, i) == IF i > Len(s) THEN <<>> ELSE SubSeq(s, i, Len(s))
\* s before position i
Upto(s, i) == IF i <= 1 THEN <<>> ELSE SubSeq(s, 1, i - 1)

\* the first position >= i of s that holds no whitespace, Len(s)+1 if none
SkipWs(s, i) ==
  LET c == {k \in i..Len(s) : ~IsWs(s[k])}
  IN IF c = {} THEN Len(s) + 1 ELSE Min(c)

\* the first position >= i of s that holds an atom of A, 0 when there is none
NextIn(s, i, A) ==
  LET c == {k \in i..Len(s) : s[k] \in A}
  IN IF c = {} THEN 0 ELSE Min(c)

\* String.prototype.trim
Trim(s) ==
  LET c == {k \in 1..Len(s) : ~IsWs(s[k])}
  IN IF c = {} THEN <<>> ELSE SubSeq(s, Min(c), Max(c))

\* whether sub occurs in s at position i
At(s, i, sub) ==
  /\ i >= 1
  /\ i + Len(sub) - 1 <= Len(s)
  /\ \A k \in 1..Len(sub) : s[i + k - 1] = sub[k]

\* String.prototype.includes
Includes(s, sub) == \E i \in 1..(Len(s) + 1) : At(s, i, sub)

\* String.prototype.startsWith
StartsWith(s, p) == At(s, 1, p)

\* String.prototype.indexOf(sub, from) as a 1-based position, 0 when absent
IndexFrom(s, sub, from) ==
  LET c == {i \in from..(Len(s) + 1) : At(s, i, sub)}
  IN IF c = {} THEN 0 ELSE Min(c)

IndexOf(s, sub) == IndexFrom(s, sub, 1)

\* String.prototype.lastIndexOf as a 1-based position, 0 when absent
LastIndexOf(s, sub) ==
  LET c == {i \in 1..(Len(s) + 1) : At(s, i, sub)}
  IN IF c = {} THEN 0 ELSE Max(c)

\* (s.match(/a/g) || []).length for a one-character pattern
CountAtom(s, a) == Cardinality({i \in 1..Len(s) : s[i] = a})

RECURSIVE ReplaceAll(_, _, _)
\* s.replace(/pat/g, rep) for a literal, non-empty pattern
ReplaceAll(s, pat, rep) ==
  LET i == IndexOf(s, pat)
  IN IF s = <<>> \/ i = 0 THEN s
     ELSE Upto(s, i) \o rep \o ReplaceAll(From(s, i + Len(pat)), pat, rep)

RECURSIVE Repeat(_, _)
Repeat(s, n) == IF n <= 0 THEN <<>> ELSE s \o Repeat(s, n - 1)

RECURSIVE Flatten(_)
\* the concatenation of a sequence of strings
Flatten(ss) == IF ss = <<>> THEN <<>> ELSE Head(ss) \o Flatten(Tail(ss))

(***************************************************************************)
(* JavaScript values                                                       *)
(***************************************************************************)

Undef == [t |-> "undef"]
Null == [t |-> "null"]
Bool(b) == [t |-> "bool", b |-> b]
Num(n) == [t |-> "num", n |-> n]
Str(s) == [t |-> "str", s |-> s]
Arr(a) == [t |-> "arr", a |-> a]
Obj(o) == [t |-> "obj", o |-> o]

EmptyObj == [k \in {} |-> Undef]

\* o with property k set to v
Put(o, k, v) == [x \in (DOMAIN o) \cup {k} |-> IF x = k THEN v ELSE o[x]]

\* the property k of the object o (undefined when absent)
Get(o, k) == IF k \in DOMAIN o THEN o[k] ELSE Undef

\* value.prop for a value of any type but null and undefined
Prop(v, k) == IF v.t = "obj" THEN Get(v.o, k) ELSE Undef

\* JavaScript truthiness
Truthy(v) ==
  CASE v.t = "undef" -> FALSE
    [] v.t = "null" -> FALSE
    [] v.t = "bool" -> v.b
    [] v.t = "num" -> v.n # 0
    [] v.t = "str" -> v.s # <<>>
    [] OTHER -> TRUE

\* a || b
OrElse(a, b) == IF Truthy(a) THEN a ELSE b

\* the result of a computation that may throw
Ok(v) == [ok |-> TRUE, v |-> v]
Throw == [ok |-> FALSE, v |-> Undef]

(***************************************************************************)
(* JSON.parse and JSON.stringify                                           *)
(***************************************************************************)

Digits == [d \in {"0", "5"} |-> IF d = "0" THEN 0 ELSE 5]

Fail == [ok |-> FALSE, v |-> Undef, i |-> 0]
Done(v, i) == [ok |-> TRUE, v |-> v, i |-> i]

RECURSIVE JsonChars(_, _, _)
\* the characters of a string literal from position i on, p being the first
\* position that holds a quote, a newline or a backslash (0 when none does)
JsonCharsAt(s, i, acc, p) ==
  IF p = 0 THEN Fail             \* the text ends inside the literal
  ELSE IF s[p] = "Q" THEN Done(acc \o SubSeq(s, i, p - 1), p + 1)
  ELSE IF s[p] = "NL" THEN Fail  \* a control character inside a string literal
  ELSE IF p + 1 > Len(s) THEN Fail
  ELSE IF s[p + 1] \in {"Q", "BS"}
  THEN JsonChars(s, p + 2, acc \o SubSeq(s, i, p - 1) \o <<s[p + 1]>>)
  ELSE IF s[p + 1] = "n"
  THEN JsonChars(s, p + 2, acc \o SubSeq(s, i, p - 1) \o <<"NL">>)
  ELSE Fail                      \* no other escape is written with these atoms

\* the characters of a string literal whose opening quote is before position i:
\* the decoded string and the position after the closing quote
JsonChars(s, i, acc) == JsonCharsAt(s, i, acc, NextIn(s, i, {"Q", "NL", "BS"}))

RECURSIVE JsonNumber(_, _, _)
\* a run of digits starting at i; a leading 0 ends the number
JsonNumber(s, i, n) ==
  IF i <= Len(s) /\ s[i] \in DOMAIN Digits /\ ~(n = 0 /\ i > 1 /\ s[i - 1] = "0")
  THEN JsonNumber(s, i + 1, 10 * n + Digits[s[i]])
  ELSE Done(Num(n), i)

RECURSIVE JsonValue(_, _)
RECURSIVE JsonMembers(_, _, _)
RECURSIVE JsonElements(_, _, _)

\* a member or an element that does not parse
JsonNoItem == [next |-> "fail"]

\* a member (key k) or an element with value v, e being the position of what
\* follows it: the list goes on after a comma, ends at close, or is broken
JsonDelim(s, k, v, e, close) ==
  [k |-> k, v |-> v, e |-> e,
   next |-> IF e > Len(s) THEN "fail"
            ELSE IF s[e] = close THEN "end"
            ELSE IF s[e] = "," THEN "more"
            ELSE "fail"]

\* a member or an element from its parsed value val
JsonAfter(s, k, val, close) ==
  IF ~val.ok THEN JsonNoItem ELSE JsonDelim(s, k, val.v, SkipWs(s, val.i), close)

\* a member from the position c that must hold its colon
JsonColon(s, k, c) ==
  IF c > Len(s) \/ s[c] # ":" THEN JsonNoItem
  ELSE JsonAfter(s, k, JsonValue(s, c + 1), "}")

\* a member from its parsed key
JsonKeyed(s, key) ==
  IF ~key.ok THEN JsonNoItem ELSE JsonColon(s, key.v, SkipWs(s, key.i))

\* a member from the position k that must hold the quote of its key
JsonMemberAt(s, k) ==
  IF k > Len(s) \/ s[k] # "Q" THEN JsonNoItem
  ELSE JsonKeyed(s, JsonChars(s, k + 1, <<>>))

\* the rest of an object after its member m
JsonMembersAfter(s, m, acc) ==
  IF m.next = "more" THEN JsonMembers(s, m.e + 1, Put(acc, m.k, m.v))
  ELSE IF m.next = "end" THEN Done(Obj(Put(acc, m.k, m.v)), m.e + 1)
  ELSE Fail

\* the members of an object, the position i being after "{" or after ","
JsonMembers(s, i, acc) == JsonMembersAfter(s, JsonMemberAt(s, SkipWs(s, i)), acc)

\* the rest of an array after its element m
JsonElementsAfter(s, m, acc) ==
  IF m.next = "more" THEN JsonElements(s, m.e + 1, Append(acc, m.v))
  ELSE IF m.next = "end" THEN Done(Arr(Append(acc, m.v)), m.e + 1)
  ELSE Fail

\* the elements of an array, the position i being after "[" or after ","
JsonElements(s, i, acc) ==
  JsonElementsAfter(s, JsonAfter(s, <<>>, JsonValue(s, i), "]"), acc)

\* a JSON value starting at or after position i (whitespace skipped)
JsonValue(s, i) ==
  LET k == SkipWs(s, i)
  IN IF k > Len(s) THEN Fail
     ELSE CASE s[k] = "{" ->
                 LET e == SkipWs(s, k + 1)
                 IN IF e <= Len(s) /\ s[e] = "}" THEN Done(Obj(EmptyObj), e + 1)
                    ELSE JsonMembers(s, k + 1, EmptyObj)
            [] s[k] = "[" ->
                 LET e == SkipWs(s, k + 1)
                 IN IF e <= Len(s) /\ s[e] = "]" THEN Done(Arr(<<>>), e + 1)
                    ELSE JsonElements(s, k + 1, <<>>)
            [] s[k] = "Q" ->
                 LET r == JsonChars(s, k + 1, <<>>)
                 IN IF r.ok THEN Done(Str(r.v), r.i) ELSE Fail
            [] s[k] = "null" -> Done(Null, k + 1)
            [] s[k] = "true" -> Done(Bool(TRUE), k + 1)
            [] s[k] = "false" -> Done(Bool(FALSE), k + 1)
            [] s[k] \in DOMAIN Digits -> JsonNumber(s, k, 0)
            [] OTHER -> Fail

\* JSON.parse(s): the value, or a SyntaxError
JSONparse(s) ==
  LET r == JsonValue(s, 1)
  IN IF r.ok /\ SkipWs(s, r.i) > Len(s) THEN Ok(r.v) ELSE Throw

RECURSIVE JsonEscape(_)
\* JsonEscape, p being the first position that holds a quote, a backslash or
\* a newline (0 when none does)
JsonEscapeAt(s, p) ==
  IF p = 0 THEN s
  ELSE Upto(s, p) \o <<"BS", IF s[p] = "NL" THEN "n" ELSE s[p]>>
         \o JsonEscape(From(s, p + 1))

\* the characters of a string as JSON.stringify writes them inside quotes
JsonEscape(s) == JsonEscapeAt(s, NextIn(s, 1, {"Q", "BS", "NL"}))

\* JSON.stringify of a string
JsonQuote(s) == <<"Q">> \o JsonEscape(s) \o <<"Q">>

RECURSIVE JsonJoin(_)
\* the elements of an array of strings, comma separated
JsonJoin(a) ==
  IF a = <<>> THEN <<>>
  ELSE IF Len(a) = 1 THEN JsonQuote(a[1])
  ELSE JsonQuote(Head(a)) \o <<",">> \o JsonJoin(Tail(a))

(***************************************************************************)
(* Regular-expression helpers shared by the two services                   *)
(***************************************************************************)

\* the four fields of a reply, as property keys
K_letter == <<"jesusLetter">>
K_prayer == <<"guidedPrayer">>
K_refs == <<"biblicalReferences">>
K_core == <<"coreMessage">>

\* the object literal { jesusLetter, guidedPrayer, biblicalReferences, coreMessage }
MkReply(letter, prayer, refs, core) ==
  Obj([k \in {K_letter, K_prayer, K_refs, K_core} |->
         CASE k = K_letter -> letter
           [] k = K_prayer -> prayer
           [] k = K_refs -> refs
           [] OTHER -> core])

\* an array of strings
StrArr(ss) == Arr([i \in 1..Len(ss) |-> Str(ss[i])])

\* "name" as it stands in the text: quote, name, quote
QuotedName(name) == <<"Q", name, "Q">>

\* [:\s]* from position i: the position after the run
SepLoose(s, i) ==
  LET c == {k \in i..Len(s) : ~(IsWs(s[k]) \/ s[k] = ":")}
  IN IF c = {} THEN Len(s) + 1 ELSE Min(c)

\* :\s* from position i: the position after it, 0 when it does not match
SepColon(s, i) == IF i <= Len(s) /\ s[i] = ":" THEN SkipWs(s, i + 1) ELSE 0

\* \s*:\s* from position i: the position after it, 0 when it does not match
SepWsColon(s, i) == SepColon(s, SkipWs(s, i))

\* the separator a pattern has between the quoted name and the value, from
\* position i: the position after it, 0 when it does not match
Sep(sep, s, i) ==
  CASE sep = "[:\\s]*" -> SepLoose(s, i)
    [] sep = ":\\s*" -> SepColon(s, i)
    [] OTHER -> SepWsColon(s, i)

\* the first position >= i holding atom a, 0 when there is none
Next1(s, i, a) == NextIn(s, i, {a})

\* "name" SEP "([^"]*(?:\\.[^"]*)*)" : the first capture of the leftmost match.
\* [^"]* is greedy and stops at the first quote, which the closing " then
\* matches, so the capture always ends at the first quote after the opening one.
\* Result [found, v].
MatchToFirstQuote(s, name, sep) ==
  LET ok(i) == /\ At(s, i, QuotedName(name))
               /\ LET j == Sep(sep, s, i + 3)
                  IN /\ j >= 1 /\ j <= Len(s) /\ s[j] = "Q"
                     /\ Next1(s, j + 1, "Q") # 0
      c == {i \in 1..Len(s) : ok(i)}
  IN IF c = {} THEN [found |-> FALSE, v |-> <<>>]
     ELSE LET j == Sep(sep, s, Min(c) + 3)
          IN [found |-> TRUE, v |-> SubSeq(s, j + 1, Next1(s, j + 1, "Q") - 1)]

\* "name" SEP \[ ( ... ) \] : the capture of the leftmost match, which ends at
\* the first "]"; with dotAll = FALSE the capture is ".*?" and holds no newline.
MatchBracket(s, name, sep, dotAll) ==
  LET ok(i) == /\ At(s, i, QuotedName(name))
               /\ LET j == Sep(sep, s, i + 3)
                  IN /\ j >= 1 /\ j <= Len(s) /\ s[j] = "["
                     /\ Next1(s, j + 1, "]") # 0
                     /\ dotAll \/ \A k \in (j + 1)..(Next1(s, j + 1, "]") - 1) : s[k] # "NL"
      c == {i \in 1..Len(s) : ok(i)}
  IN IF c = {} THEN [found |-> FALSE, v |-> <<>>]
     ELSE LET j == Sep(sep, s, Min(c) + 3)
          IN [found |-> TRUE, v |-> SubSeq(s, j + 1, Next1(s, j + 1, "]") - 1)]

RECURSIVE QuotedPieces(_)
\* s.match(/"([^"]*)"/g) with the quotes removed from every match
QuotedPieces(s) ==
  LET i == Next1(s, 1, "Q")
      j == IF i = 0 THEN 0 ELSE Next1(s, i + 1, "Q")
  IN IF j = 0 THEN <<>>
     ELSE <<SubSeq(s, i + 1, j - 1)>> \o QuotedPieces(From(s, j + 1))

(***************************************************************************)
(* BackendAIService: the normalizer (src/server/routes/ai.js)              *)
(***************************************************************************)

\* canned texts of the parser
RC_Letter == <<"RC_LETTER">>
RC_Prayer == <<"DEAR_FATHER", "RC_PRAYER_a", "GRACE", "RC_PRAYER_b", "PEACE", "x", "STRENGTH", "x">>
RC_Core == <<"DEFAULT_CORE">>
CT_Prayer == <<"DEAR_FATHER", "CT_PRAYER_a", "GRACE", ".", ".", ".">>
CS_Prayer == <<"DEAR_FATHER", "RC_PRAYER_a", "GRACE", "RC_PRAYER_b", "WISDOM", "x", "STRENGTH", "x">>

\* reconstructCompleteJson: the four fields are matched in the raw text and a
\* complete object is built from them and serialized again
reconstructCompleteJson(response) ==
  LET lm == MatchToFirstQuote(response, "jesusLetter", "[:\\s]*")
      pm == MatchToFirstQuote(response, "guidedPrayer", "[:\\s]*")
      bm == MatchBracket(response, "biblicalReferences", "[:\\s]*", TRUE)
      cm == MatchToFirstQuote(response, "coreMessage", "[:\\s]*")
      jesusLetter == IF lm.found THEN lm.v ELSE <<>>
      guidedPrayer == IF pm.found THEN pm.v ELSE <<>>
      biblicalReferences == IF bm.found THEN QuotedPieces(bm.v) ELSE <<>>
      coreMessage == IF cm.found THEN cm.v ELSE <<>>
      l == IF jesusLetter # <<>> THEN jesusLetter ELSE RC_Letter
      g == IF guidedPrayer # <<>> THEN guidedPrayer ELSE RC_Prayer
      b == IF Len(biblicalReferences) > 0 THEN biblicalReferences ELSE <<<<"John_3_16">>>>
      c == IF coreMessage # <<>> THEN coreMessage ELSE RC_Core
  IN \* JSON.stringify(completeJson)
     <<"{">> \o QuotedName("jesusLetter") \o <<":">> \o JsonQuote(l) \o <<",">>
       \o QuotedName("guidedPrayer") \o <<":">> \o JsonQuote(g) \o <<",">>
       \o QuotedName("biblicalReferences") \o <<":", "[">> \o JsonJoin(b) \o <<"]", ",">>
       \o QuotedName("coreMessage") \o <<":">> \o JsonQuote(c) \o <<"}">>

\* /"name"\s*:\s*"[^"]*$/.test(s): a string field whose value is not closed
OpenStringField(s, name) ==
  \E i \in 1..Len(s) :
     /\ At(s, i, QuotedName(name))
     /\ LET j == SepWsColon(s, i + 3)
        IN j >= 1 /\ j <= Len(s) /\ s[j] = "Q" /\ Next1(s, j + 1, "Q") = 0

\* /"biblicalReferences"\s*:\s*\[[^\]]*$/.test(s)
OpenArrayField(s) ==
  \E i \in 1..Len(s) :
     /\ At(s, i, QuotedName("biblicalReferences"))
     /\ LET j == SepWsColon(s, i + 3)
        IN j >= 1 /\ j <= Len(s) /\ s[j] = "[" /\ Next1(s, j + 1, "]") = 0

\* the step of completeIncompleteJson that closes the string of an open field
CloseOpenString(s, name) == IF OpenStringField(s, name) THEN s \o <<"Q">> ELSE s

\* the step of completeIncompleteJson that closes the open reference array
CloseOpenArray(s) == IF OpenArrayField(s) THEN s \o <<"]">> ELSE s

\* the step of completeIncompleteJson that adds the closing braces that lack
CloseOpenBraces(s) == s \o Repeat(<<"}">>, CountAtom(s, "{") - CountAtom(s, "}"))

\* completeIncompleteJson: close an open string, an open array, and the braces
completeIncompleteJson(response) ==
  CloseOpenBraces(
    CloseOpenArray(
      CloseOpenString(
        CloseOpenString(CloseOpenString(Trim(response), "jesusLetter"), "guidedPrayer"),
        "coreMessage")))

\* accumulateJsonChunks
accumulateJsonChunks(response) ==
  LET has(name) == Includes(response, QuotedName(name))
      hasJesusLetterChunk == has("jesusLetter") /\ ~has("guidedPrayer")
      hasGuidedPrayerChunk == has("guidedPrayer") /\ ~has("biblicalReferences")
      hasBiblicalReferencesChunk == has("biblicalReferences") /\ ~has("coreMessage")
      hasCoreMessageChunk == has("coreMessage") /\ ~Includes(response, <<"}">>)
      openBraces == CountAtom(response, "{")
      closeBraces == CountAtom(response, "}")
  IN IF hasJesusLetterChunk \/ hasGuidedPrayerChunk \/ hasBiblicalReferencesChunk
          \/ hasCoreMessageChunk
     THEN reconstructCompleteJson(response)
     ELSE IF openBraces > closeBraces THEN completeIncompleteJson(response)
     ELSE response

\* the end of the run of FENCE atoms that starts at i
FenceRunEnd(s, i) ==
  LET c == {k \in i..Len(s) : s[k] # "FENCE"}
  IN IF c = {} THEN Len(s) ELSE Min(c) - 1

\* s.replace(/^```+\s*json\s*/gi, '')
StripFenceJsonPrefix(s) ==
  IF s # <<>> /\ s[1] = "FENCE"
  THEN LET j == SkipWs(s, FenceRunEnd(s, 1) + 1)
       IN IF j <= Len(s) /\ s[j] = "json" THEN From(s, SkipWs(s, j + 1)) ELSE s
  ELSE s

\* s.replace(/\s*```+\s*$/g, '')
StripFenceSuffix(s) ==
  LET nonWs == {k \in 1..Len(s) : ~IsWs(s[k])}
      p == IF nonWs = {} THEN 0 ELSE Max(nonWs)
  IN IF p = 0 \/ s[p] # "FENCE" THEN s
     ELSE LET notFence == {k \in 1..p : s[k] # "FENCE"}
              q == IF notFence = {} THEN 1 ELSE Max(notFence) + 1
              notWs == {k \in 1..(q - 1) : ~IsWs(s[k])}
              w == IF notWs = {} THEN 1 ELSE Max(notWs) + 1
          IN Upto(s, w)

RECURSIVE StripFenceJson(_)
\* s.replace(/```+json\s*/gi, '')
StripFenceJson(s) ==
  LET p == Next1(s, 1, "FENCE")
      e == FenceRunEnd(s, p)
  IN IF p = 0 THEN s
     ELSE IF e + 1 <= Len(s) /\ s[e + 1] = "json"
     THEN Upto(s, p) \o StripFenceJson(From(s, SkipWs(s, e + 2)))
     ELSE SubSeq(s, 1, e) \o StripFenceJson(From(s, e + 1))

\* s.replace(/```+/g, '')
StripFences(s) == SelectSeq(s, LAMBDA a : a # "FENCE")

\* the four replacements that remove markdown code-fence markers
removeCodeFences(s) ==
  StripFences(StripFenceJson(StripFenceSuffix(StripFenceJsonPrefix(s))))

RECURSIVE CollapseNewlines(_)
\* s.replace(/\\n\\n+/g, '\\n'): "\n\n" and the letters n that follow it
\* become one "\n"
CollapseNewlines(s) ==
  LET p == IndexOf(s, <<"BS", "n", "BS", "n">>)
      c == {k \in (p + 4)..Len(s) : s[k] # "n"}
      e == IF c = {} THEN Len(s) + 1 ELSE Min(c)
  IN IF s = <<>> \/ p = 0 THEN s
     ELSE Upto(s, p) \o <<"BS", "n">> \o CollapseNewlines(From(s, e))

\* the callback of fixJsonFormat's fourth step, on the text between two quotes
EscapeNewlines(content) ==
  CollapseNewlines(ReplaceAll(content, <<"NL">>, <<"BS", "n">>))

RECURSIVE FixQuotedNewlines(_)
\* s.replace(/"([^"]*?)"/g, callback): the quotes are paired as they come
FixQuotedNewlines(s) ==
  LET i == Next1(s, 1, "Q")
      j == IF i = 0 THEN 0 ELSE Next1(s, i + 1, "Q")
  IN IF j = 0 THEN s
     ELSE Upto(s, i) \o <<"Q">> \o EscapeNewlines(SubSeq(s, i + 1, j - 1)) \o <<"Q">>
            \o FixQuotedNewlines(From(s, j + 1))

RECURSIVE RemoveTrailingCommas(_)
\* s.replace(/,(\s*[}\]])/g, '$1')
RemoveTrailingCommas(s) ==
  LET p == Next1(s, 1, ",")
      k == SkipWs(s, p + 1)
  IN IF p = 0 THEN s
     ELSE IF k <= Len(s) /\ s[k] \in {"}", "]"}
     THEN Upto(s, p) \o RemoveTrailingCommas(From(s, p + 1))
     ELSE SubSeq(s, 1, p) \o RemoveTrailingCommas(From(s, p + 1))

\* true, false, null or /^-?\d+(\.\d+)?$/
IsJsonLiteral(v) ==
  \/ v \in {<<"true">>, <<"false">>, <<"null">>}
  \/ v # <<>> /\ \A k \in 1..Len(v) : v[k] \in DOMAIN Digits

RECURSIVE QuoteBareValues(_)
\* s.replace(/:\s*([^",\{\[\]\}\s][^,\}\]]*?)(?=\s*[,\}])/g, callback):
\* a value that does not start with a quote, brace or bracket is put in quotes
\* unless it is a literal
QuoteBareValues(s) ==
  LET p == Next1(s, 1, ":")
      j == SkipWs(s, p + 1)
      stop == {k \in (j + 1)..Len(s) : s[k] \in {",", "}", "]"}}
      b == IF stop = {} THEN 0 ELSE Min(stop)
      \* the value ends where the whitespace before the delimiter starts
      body == {k \in j..(b - 1) : ~IsWs(s[k])}
      e == IF body = {} THEN j ELSE Max(body)
      matches == /\ j <= Len(s)
                 /\ s[j] \notin {"Q", ",", "{", "[", "]", "}"}
                 /\ b # 0
                 /\ s[b] \in {",", "}"}
      value == SubSeq(s, j, e)
  IN IF p = 0 THEN s
     ELSE IF ~matches THEN SubSeq(s, 1, p) \o QuoteBareValues(From(s, p + 1))
     ELSE Upto(s, p)
            \o (IF IsJsonLiteral(value) THEN SubSeq(s, p, e)
                ELSE <<":", "SP", "Q">> \o value \o <<"Q">>)
            \o QuoteBareValues(From(s, e + 1))

\* s.substring(s.indexOf('{')) when text stands before the first brace
DropBeforeBrace(s) ==
  LET jsonStart == IndexOf(s, <<"{">>)
  IN IF jsonStart > 1 THEN From(s, jsonStart) ELSE s

\* s.substring(0, s.lastIndexOf('}') + 1) when text stands after the last
\* brace; least is the smallest index, counted from 1, the code's test accepts
DropAfterBrace(s, least) ==
  LET jsonEnd == LastIndexOf(s, <<"}">>)
  IN IF jsonEnd >= least /\ jsonEnd < Len(s) THEN SubSeq(s, 1, jsonEnd) ELSE s

\* the repairs of fixJsonFormat, in their order.  Its three code-fence
\* replacements remove every run of backquotes with a following json tag;
\* parseResponse hands over a text whose fences are already removed, and
\* StripFences removes the runs of a text that still has one.
RepairJson(jsonStr) ==
  QuoteBareValues(
    RemoveTrailingCommas(
      FixQuotedNewlines(DropAfterBrace(DropBeforeBrace(StripFences(jsonStr)), 1))))

\* the end of fixJsonFormat: the repaired text when it parses, else the original
RepairedOrOriginal(jsonStr, fixed) == IF JSONparse(fixed).ok THEN fixed ELSE jsonStr

\* fixJsonFormat: the text itself when it parses, else the repaired text when
\* that parses, else the text itself
fixJsonFormat(jsonStr) ==
  IF JSONparse(jsonStr).ok THEN jsonStr
  ELSE RepairedOrOriginal(jsonStr, RepairJson(jsonStr))

\* the decoding extractStructuredContent applies to a captured value
Unescape3(v) ==
  ReplaceAll(ReplaceAll(ReplaceAll(v, <<"BS", "n", "BS", "n">>, <<>>),
                        <<"BS", "n">>, <<"NL">>),
             <<"BS", "Q">>, <<"Q">>)

\* extractStructuredContent (its catch clause is reached only by a response
\* that is no string, which a provider call never returns)
extractStructuredContent(response) ==
  LET lm == MatchToFirstQuote(response, "jesusLetter", ":\\s*")
      pm == MatchToFirstQuote(response, "guidedPrayer", ":\\s*")
      bm == MatchBracket(response, "biblicalReferences", ":\\s*", FALSE)
      cm == MatchToFirstQuote(response, "coreMessage", ":\\s*")
      jesusLetter == IF lm.found THEN Unescape3(lm.v) ELSE <<>>
      guidedPrayer == IF pm.found THEN Unescape3(pm.v) ELSE <<>>
      biblicalReferences == IF bm.found THEN QuotedPieces(bm.v) ELSE <<>>
      coreMessage == IF cm.found THEN Unescape3(cm.v) ELSE <<>>
  IN MkReply(
       Str(IF jesusLetter # <<>> THEN jesusLetter ELSE RC_Letter),
       Str(IF guidedPrayer # <<>> THEN guidedPrayer ELSE RC_Prayer),
       StrArr(IF Len(biblicalReferences) > 0 THEN biblicalReferences ELSE <<<<"John_3_16">>>>),
       Str(IF coreMessage # <<>> THEN coreMessage ELSE RC_Core))

RawPrefixLimit == 800

\* s.substring(0, n), for a text whose atoms are whole characters up to n:
\* the longest run of leading atoms that holds at most n characters
Substring(s, n) ==
  SubSeq(s, 1, Max({k \in 0..Len(s) : StrLen(SubSeq(s, 1, k)) <= n}))

\* extractContentFromText
extractContentFromText(text) ==
  MkReply(Str(Substring(text, RawPrefixLimit)), Str(CT_Prayer),
          StrArr(<<<<"John_3_16">>, <<"Psalm_23_1">>, <<"Phil_4_13">>>>), Str(RC_Core))

\* createStructuredResponse
createStructuredResponse(text) ==
  MkReply(Str(IF text # <<>> THEN text ELSE <<"CS_LETTER">>), Str(CS_Prayer),
          StrArr(<<<<"John_3_16">>, <<"Psalm_23_1">>>>), Str(RC_Core))

\* cleanedResponse.match(/\{[\s\S]*\}/): from the first "{" to the last "}"
MatchObject(s) ==
  LET first == IndexOf(s, <<"{">>)
      last == LastIndexOf(s, <<"}">>)
  IN IF first # 0 /\ last > first
     THEN [found |-> TRUE, v |-> SubSeq(s, first, last)]
     ELSE [found |-> FALSE, v |-> <<>>]

\* the end of the try block: parse the repaired object text, or take the raw
\* text as the letter when the cleaned text holds no object
parseMatched(response, jsonMatch) ==
  IF jsonMatch.found THEN JSONparse(fixJsonFormat(jsonMatch.v))
  ELSE Ok(extractContentFromText(response))

\* the try block after the trim of the accumulated text
parseCleaned(response, cleanedResponse) ==
  IF cleanedResponse = <<>> THEN Throw
  ELSE parseMatched(response,
         MatchObject(DropAfterBrace(DropBeforeBrace(removeCodeFences(cleanedResponse)), 2)))

\* the try block of parseResponse: the parsed value, or an exception
parseResponse_try(response) ==
  IF response = <<>> THEN Throw
  ELSE parseCleaned(response, Trim(accumulateJsonChunks(response)))

\* a catch clause of parseResponse that lets the exception out
parseResponse_catch_rethrow(response) == Throw

\* the catch clause of parseResponse: extractStructuredContent of the raw response
parseResponse_catch(response) == Ok(extractStructuredContent(response))

\* how a call of parseResponse ends: with what the try block returns, or with
\* what the catch clause does when the try block throws
parseResponse_outcome(response) ==
  IF parseResponse_try(response).ok THEN parseResponse_try(response)
  ELSE parseResponse_catch(response)

\* parseResponse: the value a call returns
parseResponse(response) == parseResponse_outcome(response).v

(***************************************************************************)
(* BackendAIService: the enhancer (src/server/routes/ai.js)                *)
(***************************************************************************)

LetterMinimum == 350
PrayerMinimum == 300
MinRefs == 5
MaxRefs == 7

K_verse == <<"verse">>
K_text == <<"text">>
K_context == <<"context">>
K_meaning == <<"meaning">>
K_application == <<"application">>

\* a canned reference { verse, text }; the quoted passage is one opaque atom
CannedRef(v) ==
  Obj([k \in {K_verse, K_text} |-> IF k = K_verse THEN Str(<<v>>) ELSE Str(<<v \o "_text">>)])

CannedRefs(vs) == [i \in 1..Len(vs) |-> CannedRef(vs[i])]

\* topicReferences[topic] || topicReferences['信仰'], for the topics of the model
topicReferences(topic) ==
  CASE topic = <<"WORK">> ->
         CannedRefs(<<"Eccl_3_1", "Prov_16_3", "Col_3_23", "Phil_4_19", "Eph_2_10">>)
    [] topic = <<"HEALTH">> ->
         CannedRefs(<<"Isa_53_5", "Psalm_103_2", "James_5_14", "John3_1_2", "Exod_15_26">>)
    [] OTHER ->
         CannedRefs(<<"Heb_11_1", "Rom_10_17", "James_1_6", "Mark_9_23", "Eph_2_8">>)

fallbackRefs ==
  CannedRefs(<<"John_3_16", "Rom_8_28", "Phil_4_13", "Psalm_23_1", "Isa_40_31">>)

\* the characters of a string, as the spread [...string] yields them
Chars(s) ==
  Flatten([i \in 1..Len(s) |->
             IF Width(s[i]) = 1 THEN <<s[i]>>
             ELSE [k \in 1..Width(s[i]) |-> s[i] \o "#" \o ToString(k)]])

\* [...value]: the elements of an array, the characters of a string; a number,
\* a boolean and a plain object are not iterable
Spread(v) ==
  CASE v.t = "arr" -> Ok(v.a)
    [] v.t = "str" -> Ok([i \in 1..Len(Chars(v.s)) |-> Str(<<Chars(v.s)[i]>>)])
    [] OTHER -> Throw

\* typeof ref === 'string' ? ref : ref.verse
verseKey(ref) == IF ref.t = "str" THEN ref ELSE Prop(ref, K_verse)

\* Set.prototype.has: primitives by value, objects and arrays by identity
\* (two values parsed from the text are never the same object)
SameValueZero(a, b) == a = b /\ a.t \notin {"obj", "arr"}

RECURSIVE UniqueUpTo(_, _, _)
\* the loop "if (!seenVerses.has(verseKey) && uniqueRefs.length < 7)" over refs,
\* continuing from uniqueRefs and seenVerses
UniqueUpTo(refs, uniqueRefs, seenVerses) ==
  IF refs = <<>> THEN [uniqueRefs |-> uniqueRefs, seenVerses |-> seenVerses]
  ELSE LET key == verseKey(Head(refs))
           seen == \E k \in 1..Len(seenVerses) : SameValueZero(seenVerses[k], key)
       IN IF ~seen /\ Len(uniqueRefs) < MaxRefs
          THEN UniqueUpTo(Tail(refs), Append(uniqueRefs, Head(refs)), Append(seenVerses, key))
          ELSE UniqueUpTo(Tail(refs), uniqueRefs, seenVerses)

\* uniqueRefs.slice(0, 7)
AtMostMaxRefs(uniqueRefs) ==
  SubSeq(uniqueRefs, 1, IF Len(uniqueRefs) < MaxRefs THEN Len(uniqueRefs) ELSE MaxRefs)

\* the while loop of enhanceBiblicalReferences, which runs at most once: the
\* general verses when fewer than 5 references were kept
AddFallbackRefs(kept) ==
  IF Len(kept.uniqueRefs) < MinRefs
  THEN UniqueUpTo(fallbackRefs, kept.uniqueRefs, kept.seenVerses).uniqueRefs
  ELSE kept.uniqueRefs

\* enhanceBiblicalReferences after the spread: no repeated verse, at most 7
UniqueReferences(combined) ==
  IF \E i \in 1..Len(combined) : combined[i].t \in {"null", "undef"}
  THEN Throw   \* ref.verse of null
  ELSE Ok(Arr(AtMostMaxRefs(AddFallbackRefs(UniqueUpTo(combined, <<>>, <<>>)))))

\* [...existingRefs, ...additionalRefs] for the spread existing references
CombinedReferences(spread, userInput) ==
  IF ~spread.ok THEN Throw
  ELSE UniqueReferences(spread.v \o topicReferences(userInput.topic))

\* enhanceBiblicalReferences: existing references, then the topic's, without
\* repeated verses, at most 7; the general verses when there are fewer than 5
enhanceBiblicalReferences(existingRefs, userInput) ==
  CombinedReferences(Spread(existingRefs), userInput)

RECURSIVE RemoveSpans(_, _, _)
\* s.replace(/open.*?close/gs, '')
RemoveSpans(s, open, close) ==
  LET i == IndexOf(s, open)
      j == IF i = 0 THEN 0 ELSE IndexFrom(s, close, i + Len(open))
  IN IF j = 0 THEN s
     ELSE Upto(s, i) \o RemoveSpans(From(s, j + Len(close)), open, close)

\* s.replace(/open.*$/gs, '')
RemoveFrom(s, open) == LET i == IndexOf(s, open) IN IF i = 0 THEN s ELSE Upto(s, i)

\* cleanJesusLetter, on a string
cleanJesusLetter(letter) ==
  Trim(RemoveFrom(
         RemoveSpans(
           RemoveSpans(
             RemoveSpans(letter, <<"PRAY_OPEN">>, <<"AMEN">>),
             <<"DEAR_FATHER">>, <<"AMEN">>),
           <<"IN_JESUS_NAME">>, <<"AMEN">>),
         <<"IF_WILLING">>))

PrayerInvitation == <<"PRAY_OPEN", "x", "IF_WILLING", "x", "NL", "NL">>

\* a cleanGuidedPrayer that only trims
cleanGuidedPrayer_trimOnly(prayer) == Trim(prayer)

\* cleanGuidedPrayer, on a string
cleanGuidedPrayer(prayer) ==
  LET cleaned == Trim(prayer)
  IN IF ~StartsWith(cleaned, <<"PRAY_OPEN">>) THEN PrayerInvitation \o cleaned ELSE cleaned

\* enhanceJesusLetter
enhanceJesusLetter(letter, userInput) ==
  letter \o <<"NL", "NL", "NL", "LE_a">> \o userInput.topic
         \o <<"LE_b", "PEACE", "LE_c", "STRENGTH", "x", "NL", "NL">>

\* topicMapping[topic] || { name: topic, ... }, for the topics of the model
topicMapping(topic) ==
  CASE topic = <<"WORK">> ->
         [name |-> <<"WORK">>, prayerContext |-> <<"CTX_WORK">>, hiddenNeeds |-> <<"NEEDS_WORK">>]
    [] topic = <<"HEALTH">> ->
         [name |-> <<"HEALTH">>, prayerContext |-> <<"CTX_HEALTH">>, hiddenNeeds |-> <<"NEEDS_HEALTH">>]
    [] OTHER ->
         [name |-> topic, prayerContext |-> <<"CTX_ANY">>, hiddenNeeds |-> <<"NEEDS_ANY">>]

\* enhanceGuidedPrayer
enhanceGuidedPrayer(prayer, userInput, jesusLetter) ==
  LET topicInfo == topicMapping(userInput.topic)
      ins(word, line) == IF Includes(jesusLetter, <<word>>) THEN <<line, word, "x">> ELSE <<>>
      jesusInsight ==
        ins("PEACE", "INS_PEACE") \o ins("WISDOM", "INS_WISDOM")
          \o ins("STRENGTH", "INS_STRENGTH") \o ins("HOPE", "INS_HOPE")
          \o ins("GRACE", "INS_GRACE")
      enhancement ==
        <<"NL", "NL", "PE_a">> \o topicInfo.prayerContext \o <<"PE_b", "GRACE", "PE_c">>
          \o jesusInsight \o <<"PE_d">> \o topicInfo.name \o <<"PE_e">>
          \o topicInfo.hiddenNeeds \o <<"PE_f", "PEACE", "PE_g">>
  IN prayer \o <<"NL">> \o enhancement

DefaultLetter(nickname) == <<"DL_a">> \o nickname \o <<"DL_b">>

DefaultPrayer(nickname, topic) ==
  <<"PRAY_OPEN", "x", "IF_WILLING", "x", "NL", "NL", "DEAR_FATHER", "DP_a">> \o nickname
    \o <<"DP_b">> \o topic \o <<"DP_c", "WISDOM", "x", "STRENGTH", "DP_d", "PEACE", "DP_e">>
    \o nickname \o <<"DP_f">>

\* value.length
LengthOf(v) ==
  CASE v.t = "str" -> Num(StrLen(v.s))
    [] v.t = "arr" -> Num(Len(v.a))
    [] OTHER -> Prop(v, <<"length">>)

\* value < n for a length: undefined, and what is no number, compares false
LessThan(v, n) == v.t = "num" /\ v.n < n

\* the callback of biblicalReferences.map
formatReference(ref) ==
  LET rec(verse, text, context, meaning, application) ==
        Obj([k \in {K_verse, K_text, K_context, K_meaning, K_application} |->
               CASE k = K_verse -> verse
                 [] k = K_text -> text
                 [] k = K_context -> context
                 [] k = K_meaning -> meaning
                 [] OTHER -> application])
  IN IF ref.t = "str"
     THEN rec(ref, Str(<<"REF_TEXT">>), Str(<<"REF_CONTEXT">>), Str(<<"REF_MEANING">>),
              Str(<<"REF_APPLICATION">>))
     ELSE rec(OrElse(Prop(ref, K_verse), Str(<<"UNKNOWN_VERSE">>)),
              OrElse(Prop(ref, K_text), Str(<<"REF_TEXT">>)),
              OrElse(Prop(ref, K_context), Str(<<"REF_CONTEXT">>)),
              OrElse(Prop(ref, K_meaning), Str(<<"REF_MEANING">>)),
              OrElse(Prop(ref, K_application), Str(<<"REF_APPLICATION">>)))

\* biblicalReferences.map(...) of validateAndEnhanceResponse, on what the
\* enhancement step left
formatReferences(enhanced) ==
  IF ~enhanced.ok THEN Throw
  ELSE IF enhanced.v.t # "arr" THEN Throw       \* .map is not a function
  ELSE IF \E i \in 1..Len(enhanced.v.a) : enhanced.v.a[i].t \in {"null", "undef"}
    THEN Throw                                  \* ref.verse of null
  ELSE Ok(Arr([i \in 1..Len(enhanced.v.a) |-> formatReference(enhanced.v.a[i])]))

\* the reference step of validateAndEnhanceResponse: enhancement below 5
\* entries, then the map that gives every entry the five fields
enhanceAndFormatReferences(refs0, userInput) ==
  formatReferences(IF LessThan(LengthOf(refs0), MinRefs)
                   THEN enhanceBiblicalReferences(refs0, userInput)
                   ELSE Ok(refs0))

\* the length step for the letter
lengthenLetter(letter, userInput) ==
  IF StrLen(letter) < LetterMinimum THEN enhanceJesusLetter(letter, userInput) ELSE letter

\* the length step for the prayer
lengthenPrayer(prayer, userInput, jesusLetter) ==
  IF StrLen(prayer) < PrayerMinimum
  THEN enhanceGuidedPrayer(prayer, userInput, jesusLetter) ELSE prayer

\* the object validateAndEnhanceResponse returns: the four fields replaced
EnhancedResponse(o, letter, prayer, refs, core) ==
  IF ~refs.ok THEN Throw
  ELSE Ok(Obj(Put(Put(Put(Put(o, K_letter, Str(letter)), K_prayer, Str(prayer)),
                      K_refs, refs.v), K_core, core)))

\* validateAndEnhanceResponse after the defaults: clean, lengthen, references
EnhanceFields(o, letter0, prayer0, refs0, core0, userInput) ==
  IF letter0.t # "str" \/ prayer0.t # "str" THEN Throw  \* .replace / .trim is not a function
  ELSE EnhancedResponse(o,
         lengthenLetter(cleanJesusLetter(letter0.s), userInput),
         lengthenPrayer(cleanGuidedPrayer(prayer0.s), userInput,
                        lengthenLetter(cleanJesusLetter(letter0.s), userInput)),
         enhanceAndFormatReferences(refs0, userInput), core0)

\* validateAndEnhanceResponse: the enhanced response, or a TypeError
validateAndEnhanceResponse(response, userInput) ==
  EnhanceFields(response.o,
    OrElse(Get(response.o, K_letter), Str(DefaultLetter(userInput.nickname))),
    OrElse(Get(response.o, K_prayer),
           Str(DefaultPrayer(userInput.nickname, userInput.topic))),
    OrElse(Get(response.o, K_refs), StrArr(<<<<"John_3_16">>>>)),
    OrElse(Get(response.o, K_core), Str(RC_Core)),
    userInput)

(***************************************************************************)
(* BackendAIService: the static reply and the reply metadata               *)
(***************************************************************************)

K_metadata == <<"metadata">>
K_aiService == <<"aiService">>
K_fallback == <<"fallback">>
K_error == <<"error">>

\* topicInsights[topic] || '內心的重擔', for the topics of the model
topicInsights(topic) ==
  CASE topic = <<"WORK">> -> <<"HID_WORK">>
    [] topic = <<"HEALTH">> -> <<"HID_HEALTH">>
    [] OTHER -> <<"HID_ANY">>

\* the metadata of the static reply (requestId and processingTime, a random
\* string and a clock difference, carry no information here and are left out)
fallbackMetadata ==
  Obj([k \in {K_aiService, K_fallback, K_error} |->
         CASE k = K_aiService -> Str(<<"fallback">>)
           [] k = K_fallback -> Bool(TRUE)
           [] OTHER -> Str(<<"FB_ERROR">>)])

\* generateFallbackResponse: the pre-authored reply
generateFallbackResponse(userInput) ==
  LET nickname == userInput.nickname
      topic == userInput.topic
      letter == <<"FL_a">> \o nickname \o <<"FL_b">> \o topic
                  \o <<"FL_c", "STRENGTH", "FL_d", "PEACE", "FL_e">>
      prayer == <<"PRAY_OPEN", "x", "IF_WILLING", "x", "NL", "NL", "DEAR_FATHER", "DP_a">>
                  \o nickname \o <<"DP_b">> \o topic
                  \o <<"DP_c", "WISDOM", "x", "STRENGTH", "FP_d">> \o nickname
                  \o <<"FP_e">> \o topicInsights(topic) \o <<"FP_f">> \o nickname
                  \o <<"FP_g", "PEACE", "FP_h">> \o nickname \o <<"FP_i">> \o nickname
                  \o <<"FP_j">> \o nickname \o <<"FP_k">>
  IN Obj(Put(MkReply(Str(letter), Str(prayer),
                     StrArr(<<<<"FB_REF1">>, <<"FB_REF2">>, <<"FB_REF3">>>>),
                     Str(<<"FB_CORE">>)).o,
             K_metadata, fallbackMetadata))

\* a metadata of the primary stage that carries the fallback flag
primaryMetadata_flagged(usedService) ==
  Obj([k \in {K_aiService, K_fallback} |->
         IF k = K_aiService THEN Str(<<usedService>>) ELSE Bool(TRUE)])

\* the metadata of a reply of the primary stage: { aiService: usedService, ... }
primaryMetadata(usedService) ==
  Obj([k \in {K_aiService} |-> Str(<<usedService>>)])

\* the metadata of a reply of the secondary stage, which names no fallback
secondaryMetadata_unflagged(usedService) ==
  Obj([k \in {K_aiService} |-> Str(<<usedService>>)])

\* the metadata of a reply of the secondary stage:
\* { aiService: usedService, fallback: true }
secondaryMetadata(usedService) ==
  Obj([k \in {K_aiService, K_fallback} |->
         IF k = K_aiService THEN Str(<<usedService>>) ELSE Bool(TRUE)])

\* { ...validatedResponse, metadata }
WithMetadata(validatedResponse, metadata) ==
  Obj(Put(validatedResponse.o, K_metadata, metadata))

(***************************************************************************)
(* The inputs: user inputs that passed validation, and the texts a         *)
(* provider may return                                                     *)
(***************************************************************************)

MaxRefCount == 8
MaxCut == 3

Topics == {<<"WORK">>, <<"HEALTH">>, <<"MISC">>}

PlainInputs ==
  {[nickname |-> <<"Sam">>, topic |-> t, situation |-> <<"x">>] : t \in Topics}

\* a request whose situation names four persons and one event
CoverageInput ==
  [nickname |-> <<"Sam">>, topic |-> <<"WORK">>,
   situation |-> <<"MOM", "x", "FATHER", "DAD", "MOTHER", "x", "EXAM">>]

UserInputs == PlainInputs \cup {CoverageInput}

Verses ==
  <<"Eccl_3_1", "John_3_16", "Isa_53_5", "Psalm_23_1", "Phil_4_13", "Rom_8_28",
    "Isa_40_31", "Heb_11_1", "Prov_16_3", "Col_3_23", "Phil_4_19", "Eph_2_10">>

\* a JSON string literal whose content is already in JSON encoding
JStr(s) == <<"Q">> \o s \o <<"Q">>

LongText == Repeat(<<"X100">>, 4)

\* a text of 200 characters: below the letter minimum, above it once lengthened
MidText == Repeat(<<"X100">>, 2)

RECURSIVE JoinComma(_)
JoinComma(ss) ==
  IF ss = <<>> THEN <<>>
  ELSE IF Len(ss) = 1 THEN Head(ss)
  ELSE Head(ss) \o <<",">> \o JoinComma(Tail(ss))

\* the text of an array of n references of one kind
RefArrayText(kind, n) ==
  <<"[">> \o JoinComma([i \in 1..n |->
             CASE kind = "distinct" -> JStr(<<Verses[i]>>)
               [] kind = "same" -> JStr(<<"John_3_16">>)
               [] kind = "objects" ->
                    <<"{", "Q", "verse", "Q", ":">> \o JStr(<<Verses[i]>>) \o <<"}">>
               [] OTHER ->
                    <<"{", "Q", "text", "Q", ":">> \o JStr(<<"x">>) \o <<"}">>])
    \o <<"]">>

\* the texts of a field's value; the empty text stands for a field left out
LetterTexts ==
  { <<>>, JStr(<<>>), JStr(<<"x">>), JStr(LongText), <<"5">>,
    JStr(<<"x", "BS", "Q", "x">>), JStr(<<"x", "NL", "x">>),
    JStr(<<"x", "PRAY_OPEN", "x", "AMEN", "x">>), JStr(<<"Sam", "PEACE", "HOPE">>),
    JStr(<<"PRAY_OPEN", "x">>), JStr(MidText), JStr(<<"x", "MOM", "x">>) }

PrayerTexts ==
  { <<>>, JStr(<<>>), JStr(<<"x">>), JStr(LongText), <<"5">>, <<"true">>,
    JStr(<<"PRAY_OPEN", "x">>) }

CoreTexts == { <<>>, JStr(<<>>), JStr(<<"x">>), <<"5">>, <<"null">> }

RefsTexts ==
  { <<>>, <<"5">>, JStr(<<"x">>), <<"[", "null", "]">> }
    \cup { RefArrayText(kind, n) :
             kind \in {"distinct", "same", "objects", "noverse"}, n \in 0..MaxRefCount }

\* a JSON object text with the four fields, each present when its text is not empty
Document(letter, prayer, refs, core) ==
  LET member(name, text) ==
        IF text = <<>> THEN <<>> ELSE << <<"Q", name, "Q", ":">> \o text >>
  IN <<"{">> \o JoinComma(member("jesusLetter", letter) \o member("guidedPrayer", prayer)
                            \o member("biblicalReferences", refs)
                            \o member("coreMessage", core))
       \o <<"}">>

Documents ==
  { Document(l, p, RefArrayText("distinct", 2), JStr(<<"x">>)) :
      l \in LetterTexts, p \in PrayerTexts }
    \cup { Document(JStr(LongText), JStr(LongText), r, JStr(<<"x">>)) : r \in RefsTexts }
    \cup { Document(JStr(LongText), JStr(LongText), RefArrayText("distinct", 5), c) :
             c \in CoreTexts }

\* a document as a provider may deliver it: bare, in a code fence, inside
\* prose, or cut off before its end
Deliveries(doc) ==
  { doc,
    <<"FENCE", "json", "NL">> \o doc \o <<"NL", "FENCE">>,
    <<"x", "SP">> \o doc \o <<"SP", "x">> }
    \cup { SubSeq(doc, 1, Len(doc) - k) : k \in 1..MaxCut }

\* texts without any JSON object: prose, short and longer than the raw-text
\* prefix, and the JSON literal null
ProseTexts == { <<"x", "SP", "x">>, Repeat(<<"X100">>, 9), <<"null">> }

\* texts that fail inside the try block of parseResponse: braces around what is
\* no JSON, with no field name and with one, and white space only
BrokenTexts ==
  { <<"x", "{", "x", "}">>, <<"SP", "NL">>,
    <<"{", "x", "Q", "coreMessage", "Q", ":">> \o JStr(<<"x">>) \o <<"}">> }

RawTexts ==
  UNION { Deliveries(doc) : doc \in Documents } \cup ProseTexts \cup BrokenTexts \cup { <<>> }

(***************************************************************************)
(* SimplifiedAIService: parseResponse and validateAndEnhanceResponse       *)
(* (src/src/services/SimplifiedAIService.js)                               *)
(***************************************************************************)

RECURSIVE S_stripFences(_, _)
\* s.replace(/```json\s*|\s*```/g, '') when withJson, and
\* s.replace(/```\s*|\s*```/g, '') otherwise
S_stripFences(s, withJson) ==
  LET open == IF withJson THEN <<"FENCE", "json">> ELSE <<"FENCE">>
      closes(k) == SkipWs(s, k) <= Len(s) /\ s[SkipWs(s, k)] = "FENCE"
      c == {k \in 1..Len(s) : At(s, k, open) \/ closes(k)}
      p == IF c = {} THEN 0 ELSE Min(c)
  IN IF p = 0 THEN s
     ELSE IF At(s, p, open)
     THEN Upto(s, p) \o S_stripFences(From(s, SkipWs(s, p + Len(open))), withJson)
     ELSE Upto(s, p) \o S_stripFences(From(s, SkipWs(s, p) + 1), withJson)

RECURSIVE S_bodyEnd(_, _)
\* S_bodyEnd, p being the first position that holds a quote or a backslash
S_bodyEndAt(s, p) ==
  IF p = 0 THEN 0
  ELSE IF s[p] = "Q" THEN p
  ELSE IF p + 1 > Len(s) THEN 0
  ELSE S_bodyEnd(s, p + 2)

\* (?:[^"\\]|\\.)*" from position i: the position of the closing quote, 0
\* when the text ends before one
S_bodyEnd(s, i) == S_bodyEndAt(s, NextIn(s, i, {"Q", "BS"}))

\* "name"\s*:\s*"((?:[^"\\]|\\.)*)" : the capture of the leftmost match
S_matchString(s, name) ==
  LET ok(i) == /\ At(s, i, QuotedName(name))
               /\ LET j == SepWsColon(s, i + 3)
                  IN j >= 1 /\ j <= Len(s) /\ s[j] = "Q" /\ S_bodyEnd(s, j + 1) # 0
      c == {i \in 1..Len(s) : ok(i)}
  IN IF c = {} THEN [found |-> FALSE, v |-> <<>>]
     ELSE LET j == SepWsColon(s, Min(c) + 3)
          IN [found |-> TRUE, v |-> SubSeq(s, j + 1, S_bodyEnd(s, j + 1) - 1)]

\* .replace(/\\n/g, '\n').replace(/\\"/g, '"').replace(/\\\\/g, '\\')
S_unescape(v) ==
  ReplaceAll(ReplaceAll(ReplaceAll(v, <<"BS", "n">>, <<"NL">>), <<"BS", "Q">>, <<"Q">>),
             <<"BS", "BS">>, <<"BS">>)

RECURSIVE S_split(_, _)
\* s.split(a) for a one-character separator
S_split(s, a) ==
  LET i == Next1(s, 1, a)
  IN IF i = 0 THEN <<s>> ELSE <<Upto(s, i)>> \o S_split(From(s, i + 1), a)

\* the references of extractWithRegex from the text between the brackets
S_references(inner) ==
  LET parsed == JSONparse(<<"[">> \o inner \o <<"]">>)
  IN IF parsed.ok
     THEN Arr(SelectSeq(parsed.v.a, LAMBDA ref : ref.t = "str" /\ Trim(ref.s) # <<>>))
     ELSE LET pieces == S_split(inner, ",")
              cleaned == [i \in 1..Len(pieces) |->
                            SelectSeq(Trim(pieces[i]), LAMBDA a : a # "Q")]
          IN StrArr(SelectSeq(cleaned, LAMBDA ref : ref # <<>>))

\* extractWithRegex (its catch clause is reached only by a text that is no string)
S_extractWithRegex(text) ==
  LET letterMatch == S_matchString(text, "jesusLetter")
      prayerMatch == S_matchString(text, "guidedPrayer")
      biblicalMatch == MatchBracket(text, "biblicalReferences", "\\s*:\\s*", TRUE)
      coreMatch == S_matchString(text, "coreMessage")
  IN MkReply(Str(IF letterMatch.found THEN S_unescape(letterMatch.v) ELSE <<>>),
             Str(IF prayerMatch.found THEN S_unescape(prayerMatch.v) ELSE <<>>),
             IF biblicalMatch.found THEN S_references(biblicalMatch.v) ELSE Arr(<<>>),
             Str(IF coreMatch.found THEN S_unescape(coreMatch.v) ELSE <<>>))

\* parseResponse: the value JSON.parse gives for the text without its fences,
\* whatever its type, and extractWithRegex of the raw text otherwise
S_parseResponse(response) ==
  LET cleanedResponse == S_stripFences(S_stripFences(Trim(response), TRUE), FALSE)
      parsed == JSONparse(cleanedResponse)
  IN IF parsed.ok THEN parsed.v ELSE S_extractWithRegex(response)

\* enhanceJesusLetter of SimplifiedAIService
S_enhanceJesusLetter(letter, userInput) ==
  letter \o <<"NL", "NL", "DL_a">> \o userInput.nickname \o <<"x", "NL", "NL", "LE_a">>
         \o userInput.topic
         \o <<"LE_b", "PEACE", "LE_c", "STRENGTH", "x", "NL", "NL", "SLE_d">>

\* enhanceGuidedPrayer of SimplifiedAIService
S_enhanceGuidedPrayer(prayer, userInput) ==
  prayer \o <<"NL", "NL", "DEAR_FATHER", "x", "NL", "NL", "SPE_a">> \o userInput.nickname
         \o <<"x">> \o userInput.topic \o <<"SPE_c", "GRACE", "SPE_d">>
         \o userInput.nickname \o <<"WISDOM", "SPE_e">> \o userInput.nickname
         \o <<"SPE_f", "PEACE", "SPE_g">>

\* the keyword lists of extractMentionedEntities, by their first four keywords
peopleKeywords == <<"MOM", "FATHER", "DAD", "MOTHER">>
eventKeywords == <<"BIRTHDAY", "EXAM", "INTERVIEW", "SURGERY">>

\* extractMentionedEntities: the keywords the situation holds, at most 5 of each
S_extractMentionedEntities(situation) ==
  LET held(keywords) == SelectSeq(keywords, LAMBDA k : Includes(situation, <<k>>))
      slice(q, n) == SubSeq(q, 1, IF Len(q) < n THEN Len(q) ELSE n)
  IN [people |-> slice(held(peopleKeywords), 5), events |-> slice(held(eventKeywords), 5)]

RECURSIVE S_cover(_, _, _, _)
\* the forEach loops of ensureCoverage: a line for every word the text lacks
S_cover(updated, words, before, after) ==
  IF words = <<>> THEN updated
  ELSE S_cover(IF Includes(updated, <<Head(words)>>) THEN updated
               ELSE updated \o before \o <<Head(words)>> \o after,
               Tail(words), before, after)

\* ensureCoverage
S_ensureCoverage(text, entities, type) ==
  LET slice(q, n) == SubSeq(q, 1, IF Len(q) < n THEN Len(q) ELSE n)
      people == slice(entities.people, 3)
      events == slice(entities.events, 3)
      withPeople ==
        IF type = "letter"
        THEN S_cover(text, people, <<"NL", "COV_LP_a">>, <<"COV_LP_b", "PEACE", "COV_LP_c">>)
        ELSE S_cover(text, people, <<"NL", "COV_PP_a">>, <<"COV_PP_b", "STRENGTH", "x">>)
  IN IF type = "letter"
     THEN S_cover(withPeople, events, <<"NL", "COV_LE_a">>,
                  <<"COV_LE_b", "WISDOM", "COV_LE_c">>)
     ELSE S_cover(withPeople, events, <<"NL", "COV_PE_a">>,
                  <<"COV_PE_b", "WISDOM", "COV_PE_c">>)

S_LetterMinimum == 350
S_PrayerMinimum == 350

\* validateAndEnhanceResponse of SimplifiedAIService: the enhanced response, or
\* a TypeError.  The class body is strict code, so a property of a parsed
\* primitive cannot be set; a letter that is no string has no includes; a
\* prayer that is no string has no length below 350 and, with entities to
\* cover, no includes.  (A letter or prayer that is an array does not occur in
\* the texts of the model.)
S_validateAndEnhanceResponse(response, userInput) ==
  IF response.t \notin {"obj", "arr"} THEN Throw
  ELSE
    LET o == IF response.t = "obj" THEN response.o ELSE EmptyObj
        nickname == userInput.nickname
        letter0 == OrElse(Get(o, K_letter), Str(DefaultLetter(nickname)))
        prayer0 == OrElse(Get(o, K_prayer),
                          Str(<<"DEAR_FATHER", "SDP_a">> \o nickname
                                \o <<"x", "GRACE", ".", ".", ".">>))
        refs0 == OrElse(Get(o, K_refs), StrArr(<<<<"John_3_16">>>>))
        core0 == OrElse(Get(o, K_core), Str(RC_Core))
        entities == S_extractMentionedEntities(userInput.situation)
    IN IF letter0.t # "str" THEN Throw
       ELSE IF prayer0.t # "str" /\ (entities.people # <<>> \/ entities.events # <<>>)
         THEN Throw
       ELSE
         LET letter1 == IF StrLen(letter0.s) < S_LetterMinimum
                        THEN S_enhanceJesusLetter(letter0.s, userInput) ELSE letter0.s
             letter2 == IF nickname # <<>> /\ ~Includes(letter1, nickname)
                        THEN <<"DL_a">> \o nickname \o <<"x", "NL">> \o letter1
                        ELSE letter1
             prayer1 == IF prayer0.t # "str" THEN prayer0
                        ELSE Str(S_ensureCoverage(
                                   IF StrLen(prayer0.s) < S_PrayerMinimum
                                   THEN S_enhanceGuidedPrayer(prayer0.s, userInput)
                                   ELSE prayer0.s,
                                   entities, "prayer"))
         IN Ok(Obj(Put(Put(Put(Put(o, K_letter,
                                   Str(S_ensureCoverage(letter2, entities, "letter"))),
                               K_prayer, prayer1), K_refs, refs0), K_core, core0)))

(***************************************************************************)
(* BackendAIService: the service object and the requests in progress       *)
(***************************************************************************)

NumRequests == 2

Requests == 1..NumRequests

VARIABLES
  geminiApiKey,      \* process.env.GEMINI_API_KEY is set
  openaiApiKey,      \* process.env.OPENAI_API_KEY is set
  geminiService,     \* this.geminiService is a client
  openaiService,     \* this.openaiService is a client
  isInitialized,     \* this.isInitialized
  preferredService,  \* this.preferredService
  aiPrompts,         \* this.aiPrompts and this.prayerPrompts hold the prompt files
  requests,          \* the generateResponse invocations, by request
  pipe               \* one text on its way through a parser and an enhancer

vars ==
  <<geminiApiKey, openaiApiKey, geminiService, openaiService, isInitialized,
    preferredService, aiPrompts, requests, pipe>>

service == <<geminiApiKey, openaiApiKey, geminiService, openaiService, isInitialized,
             preferredService, aiPrompts>>

NoInput == [nickname |-> <<>>, topic |-> <<>>, situation |-> <<>>]

\* an invocation that has not started
IdleRequest ==
  [pc |-> "idle", userInput |-> NoInput, inFlight |-> {}, calls |-> <<>>,
   stages |-> <<>>, primary |-> "none", secondary |-> "none",
   outcome |-> "none", reply |-> Undef, posted |-> Undef, status |-> 0,
   error |-> "none", prompt |-> "none", promptTokens |-> 0, sent |-> <<>>]

IdlePipe ==
  [service |-> "none", phase |-> "idle", raw |-> <<>>, userInput |-> NoInput,
   parsed |-> Undef, result |-> Throw, again |-> Throw, stage |-> "none",
   reply |-> Undef, prompt |-> "none", promptTokens |-> 0]

\* the texts a provider returns in the orchestrator's specification: a well
\* formed document, a document whose letter is a number, and the empty text
GoodText ==
  Document(JStr(LongText), JStr(LongText), RefArrayText("distinct", 5), JStr(<<"x">>))

IllTypedText ==
  Document(<<"5">>, JStr(LongText), RefArrayText("distinct", 5), JStr(<<"x">>))

ProviderTexts == {GoodText, IllTypedText, <<>>}

K_nickname == <<"nickname">>
K_situation == <<"situation">>
K_topic == <<"topic">>

SituationMax == 2000

\* a length check that turns away a situation of exactly the maximum
situationTooLong_inclusive(situation) ==
  situation.t = "str" /\ StrLen(situation.s) >= SituationMax

\* userInput.situation.length > 2000 of router.post('/generate')
situationTooLong(situation) ==
  situation.t = "str" /\ StrLen(situation.s) > SituationMax

\* the two validations of router.post('/generate'): the status the handler
\* answers with before it calls generateResponse, 0 when it goes on
validationStatus(userInput) ==
  IF \/ ~Truthy(userInput)
     \/ ~Truthy(Prop(userInput, K_nickname))
     \/ ~Truthy(Prop(userInput, K_situation))
     \/ ~Truthy(Prop(userInput, K_topic))
  THEN 400
  ELSE IF situationTooLong(Prop(userInput, K_situation)) THEN 400
  ELSE 0

\* the userInput of a request body, as generateResponse reads it
UserInputOf(userInput) ==
  [nickname |-> Prop(userInput, K_nickname).s, topic |-> Prop(userInput, K_topic).s,
   situation |-> Prop(userInput, K_situation).s]

\* a userInput object of a request body; an empty text leaves the field out
PostedInput(nickname, topic, situation) ==
  LET field(k, s) == IF s = <<>> THEN <<>> ELSE <<k>>
      keys == field(K_nickname, nickname) \o field(K_topic, topic)
                \o field(K_situation, situation)
  IN Obj([k \in {keys[i] : i \in 1..Len(keys)} |->
            CASE k = K_nickname -> Str(nickname)
              [] k = K_topic -> Str(topic)
              [] OTHER -> Str(situation)])

\* the userInput of the bodies posted to /generate: complete ones, with a
\* short situation and with one of exactly the maximum length; a body without
\* userInput; one field left out; a situation one character over the maximum
PostedInputs ==
  { PostedInput(<<"Sam">>, topic, <<"x">>) : topic \in {<<"WORK">>, <<"MISC">>} }
    \cup { PostedInput(<<"Sam">>, <<"WORK">>, Repeat(<<"X100">>, 20)),
           Undef,
           PostedInput(<<>>, <<"WORK">>, <<"x">>),
           PostedInput(<<"Sam">>, <<>>, <<"x">>),
           PostedInput(<<"Sam">>, <<"WORK">>, <<>>),
           PostedInput(<<"Sam">>, <<"WORK">>, Repeat(<<"X100">>, 20) \o <<"x">>) }

\* the inputs that reach generateResponse
AcceptedInputs ==
  { UserInputOf(userInput) : userInput \in {p \in PostedInputs : validationStatus(p) = 0} }

\* the state after the constructor: no client yet, init() started
Init ==
  /\ geminiApiKey \in BOOLEAN
  /\ openaiApiKey \in BOOLEAN
  /\ geminiService = FALSE
  /\ openaiService = FALSE
  /\ isInitialized = FALSE
  /\ preferredService = "openai"
  /\ aiPrompts = FALSE
  /\ requests = [r \in Requests |-> IdleRequest]
  /\ pipe = IdlePipe

(***************************************************************************)
(* BackendAIService: the prompts (src/server/routes/ai.js)                 *)
(***************************************************************************)

\* the atoms of a prompt that hold Chinese characters or English words, each
\* with <<its Chinese characters, its English words>>; the pieces of the
\* templates begin and end with a character that is no letter
PromptAtoms ==
  [ X100 |-> <<100, 0>>, ZH10 |-> <<10, 0>>, ZH |-> <<1, 0>>,
    WORK |-> <<2, 0>>, HEALTH |-> <<2, 0>>, MISC |-> <<4, 0>>, OTHERS |-> <<2, 0>>,
    ALL_NEEDS |-> <<8, 0>>, CHRISTIAN |-> <<3, 0>>, NOT_GIVEN |-> <<3, 0>>,
    \* buildCompactPrompt's template
    CP_a |-> <<46, 2>>, CP_b |-> <<2, 0>>, CP_c |-> <<2, 0>>, CP_d |-> <<2, 0>>,
    CP_e |-> <<177, 9>>,
    \* buildFullPrompt's built-in template
    BI_a |-> <<14, 0>>, BI_b |-> <<10, 0>>, BI_c |-> <<4, 0>>, BI_d |-> <<4, 0>>,
    BI_e |-> <<266, 9>>, BI_f |-> <<44, 5>>,
    \* what buildFullPrompt appends to the detailed prompts
    DS_a |-> <<8, 0>>, DS_b |-> <<2, 0>>, DS_c |-> <<2, 0>>, DS_d |-> <<4, 0>>,
    DS_e |-> <<43, 10>>,
    \* the detailed prompts of the file
    AIP_a |-> <<300, 20>>, AIP_b |-> <<60, 4>> ]

\* atoms that are English letters
LetterAtoms == {"x", "Sam"}

RECURSIVE chineseChars(_)
\* (text.match(/[\u4e00-\u9fff]/g) || []).length
chineseChars(text) ==
  IF text = <<>> THEN 0
  ELSE (IF Head(text) \in DOMAIN PromptAtoms THEN PromptAtoms[Head(text)][1] ELSE 0)
         + chineseChars(Tail(text))

RECURSIVE englishWords(_)
\* (text.match(/[a-zA-Z]+/g) || []).length: a run of letters is one word
englishWords(text) ==
  IF text = <<>> THEN 0
  ELSE (IF Head(text) \in DOMAIN PromptAtoms THEN PromptAtoms[Head(text)][2]
        ELSE IF Head(text) \in LetterAtoms
                  /\ (Len(text) = 1 \/ text[2] \notin LetterAtoms) THEN 1
        ELSE 0)
         + englishWords(Tail(text))

\* estimateTokens: Math.ceil(chineseChars * 1.5 + englishWords), 0 for no text
estimateTokens(text) ==
  IF text = <<>> THEN 0
  ELSE (3 * chineseChars(text) + 2 * englishWords(text) + 1) \div 2

\* the text of AI_Prompts_Detailed.md, with its four placeholders
AI_Prompts_Detailed ==
  <<"AIP_a", "P_nickname", "AIP_b", "P_situation", "NL", "P_topic", "NL", "P_religion">>

\* this.aiPrompts: the text of the file once the prompt files are loaded
aiPromptsText(loaded) == IF loaded THEN AI_Prompts_Detailed ELSE <<>>

\* buildFullPrompt: the detailed prompts with the user's data in place of the
\* placeholders and a closing section, or the built-in template without them
buildFullPrompt(userInput, prompts) ==
  LET nickname == userInput.nickname
      situation == userInput.situation
      topic == userInput.topic
      religion == <<"CHRISTIAN">>
  IN IF Trim(prompts) # <<>>
     THEN ReplaceAll(ReplaceAll(ReplaceAll(ReplaceAll(prompts,
                       <<"P_nickname">>, nickname), <<"P_situation">>, situation),
                       <<"P_topic">>, topic), <<"P_religion">>, religion)
            \o <<"DS_a">> \o nickname \o <<"DS_b">> \o topic \o <<"DS_c">> \o situation
            \o <<"DS_d">> \o religion \o <<"DS_e">>
     ELSE <<"BI_a">> \o nickname \o <<"BI_b">> \o situation \o <<"BI_c">> \o topic
            \o <<"BI_d">> \o religion \o <<"BI_e">> \o religion \o <<"BI_f">>

\* buildCompactPrompt
buildCompactPrompt(userInput) ==
  LET displayTopic == IF userInput.topic = <<"OTHERS">> THEN <<"ALL_NEEDS">>
                      ELSE userInput.topic
  IN <<"CP_a">> \o userInput.nickname \o <<"CP_b">> \o displayTopic \o <<"CP_c">>
       \o userInput.situation \o <<"CP_d", "NOT_GIVEN", "CP_e">>

TokenLimit == 800

\* a selection that sends the compact prompt at the limit already
selectPrompt_inclusive(userInput, prompts) ==
  IF estimateTokens(buildFullPrompt(userInput, prompts)) >= TokenLimit
  THEN [variant |-> "compact", text |-> buildCompactPrompt(userInput),
        tokens |-> estimateTokens(buildCompactPrompt(userInput))]
  ELSE [variant |-> "full", text |-> buildFullPrompt(userInput, prompts),
        tokens |-> estimateTokens(buildFullPrompt(userInput, prompts))]

\* the prompt generateResponse sends and the token count it records
selectPrompt(userInput, prompts) ==
  IF estimateTokens(buildFullPrompt(userInput, prompts)) > TokenLimit
  THEN [variant |-> "compact", text |-> buildCompactPrompt(userInput),
        tokens |-> estimateTokens(buildCompactPrompt(userInput))]
  ELSE [variant |-> "full", text |-> buildFullPrompt(userInput, prompts),
        tokens |-> estimateTokens(buildFullPrompt(userInput, prompts))]

\* await of a provider call with the prompt in fullPrompt: the call is in
\* flight until it returns or throws
issueCall(q, provider, pc) ==
  [q EXCEPT !.pc = pc, !.inFlight = @ \cup {provider}, !.calls = Append(@, provider),
            !.sent = Append(@, q.prompt)]

\* the prompt generateResponse sends for every request, with the prompt files
\* loaded and without: a table of selectPrompt's results
selectedPrompt ==
  [userInput \in AcceptedInputs, loaded \in BOOLEAN |->
     selectPrompt(userInput, aiPromptsText(loaded))]

\* this.parseResponse(aiResponse) and then this.validateAndEnhanceResponse(
\* parsedResponse, userInput), for every text a provider returns and every
\* request: a table of the two operators' results
parseAndEnhance ==
  [text \in ProviderTexts \ {<<>>}, userInput \in AcceptedInputs |->
     validateAndEnhanceResponse(parseResponse(text), userInput)]

\* the error a catch clause holds, in scope until generateResponse returns:
\* thrown by the provider call ("call"), by parseResponse or
\* validateAndEnhanceResponse ("processing"), or because no provider can be
\* called ("unavailable")
threw(q, origin) == [q EXCEPT !.error = origin]

\* the promise of generateResponse resolves with a reply
resolveWith(q, reply) ==
  [q EXCEPT !.pc = "done", !.outcome = "resolved", !.reply = reply, !.error = "none"]

\* the static stage
staticFallback(q) ==
  resolveWith([q EXCEPT !.stages = Append(@, "STATIC_FALLBACK")],
              generateFallbackResponse(q.userInput))

\* a catch clause that lets the error out of generateResponse
tryFallbackService_catch_rethrow(q) ==
  [q EXCEPT !.pc = "done", !.secondary = "failed", !.outcome = "rejected"]

\* a catch clause that calls the secondary provider again, once
tryFallbackService_catch_retry(q) ==
  IF Len(q.calls) < 3 /\ q.calls # <<>>
  THEN issueCall([q EXCEPT !.stages = Append(@, "SECONDARY")],
                 q.calls[Len(q.calls)], "secondaryCall")
  ELSE staticFallback([q EXCEPT !.secondary = "failed"])

\* the catch clause of tryFallbackService
tryFallbackService_catch(q) == staticFallback([q EXCEPT !.secondary = "failed"])

\* tryFallbackService up to its await: fullPrompt is buildFullPrompt(userInput)
tryFallbackService(q, gemini, openai) ==
  LET q1 == [q EXCEPT !.stages = Append(@, "SECONDARY"), !.secondary = "running",
                      !.prompt = "full"]
  IN CASE preferredService = "gemini" /\ openai -> issueCall(q1, "openai", "secondaryCall")
       [] preferredService = "openai" /\ gemini -> issueCall(q1, "gemini", "secondaryCall")
       [] OTHER -> tryFallbackService_catch(threw(q1, "unavailable"))

\* a catch clause that returns the static reply at once
generateResponse_catch_static(q, gemini, openai) ==
  staticFallback([q EXCEPT !.primary = "failed"])

\* the catch clause of generateResponse
generateResponse_catch(q, gemini, openai) ==
  tryFallbackService([q EXCEPT !.primary = "failed"], gemini, openai)

\* a generateResponse that starts both provider calls together
generateResponse_parallel(q, userInput, gemini, openai) ==
  LET q1 == [q EXCEPT !.userInput = userInput, !.stages = <<"PRIMARY">>,
                      !.primary = "running", !.outcome = "pending"]
  IN IF gemini /\ openai
     THEN issueCall(issueCall(q1, "openai", "primaryCall"), "gemini", "primaryCall")
     ELSE generateResponse_catch(q1, gemini, openai)

\* a generateResponse that keeps the userInput in a field of the service, where
\* an invocation still in progress has left its own
generateResponse_shared(q, userInput, gemini, openai) ==
  LET busy == {s \in Requests : requests[s].pc \notin {"idle", "done"}}
      q1 == [q EXCEPT !.userInput = IF busy = {} THEN userInput
                                     ELSE requests[CHOOSE s \in busy : TRUE].userInput,
                      !.stages = <<"PRIMARY">>,
                      !.primary = "running", !.outcome = "pending"]
  IN CASE preferredService = "gemini" /\ gemini -> issueCall(q1, "gemini", "primaryCall")
       [] preferredService = "openai" /\ openai -> issueCall(q1, "openai", "primaryCall")
       [] OTHER -> generateResponse_catch(q1, gemini, openai)

\* a generateResponse that calls the preferred provider without looking for
\* its client
generateResponse_unchecked(q, userInput, gemini, openai) ==
  LET selected == selectedPrompt[userInput, aiPrompts']
      q1 == [q EXCEPT !.userInput = userInput, !.stages = <<"PRIMARY">>,
                      !.primary = "running", !.outcome = "pending",
                      !.prompt = selected.variant, !.promptTokens = selected.tokens]
  IN issueCall(q1, preferredService, "primaryCall")

\* generateResponse up to its await
generateResponse(q, userInput, gemini, openai) ==
  LET selected == selectedPrompt[userInput, aiPrompts']
      q1 == [q EXCEPT !.userInput = userInput, !.stages = <<"PRIMARY">>,
                      !.primary = "running", !.outcome = "pending",
                      !.prompt = selected.variant, !.promptTokens = selected.tokens]
  IN CASE preferredService = "gemini" /\ gemini -> issueCall(q1, "gemini", "primaryCall")
       [] preferredService = "openai" /\ openai -> issueCall(q1, "openai", "primaryCall")
       [] OTHER -> generateResponse_catch(threw(q1, "unavailable"), gemini, openai)

\* a catch clause of generateResponse that lets a processing error out
generateResponse_reply_surfacing(q, validated, gemini, openai) ==
  IF ~validated.ok THEN [q EXCEPT !.pc = "done", !.primary = "failed",
                                  !.outcome = "rejected"]
  ELSE resolveWith([q EXCEPT !.primary = "succeeded"],
                   WithMetadata(validated.v, primaryMetadata(q.calls[1])))

\* the end of generateResponse: the reply, or the catch clause
generateResponse_reply(q, validated, gemini, openai) ==
  IF ~validated.ok THEN generateResponse_catch(threw(q, "processing"), gemini, openai)
  ELSE resolveWith([q EXCEPT !.primary = "succeeded"],
                   WithMetadata(validated.v, primaryMetadata(q.calls[1])))

\* generateResponse after the provider returned text: parse, enhance, reply
\* (an empty text makes the provider call throw)
generateResponse_resume(q, text, gemini, openai) ==
  IF text = <<>> THEN generateResponse_catch(threw(q, "call"), gemini, openai)
  ELSE generateResponse_reply(q, parseAndEnhance[text, q.userInput], gemini, openai)

\* the end of tryFallbackService: the reply, or the catch clause
tryFallbackService_reply(q, validated) ==
  IF ~validated.ok THEN tryFallbackService_catch(threw(q, "processing"))
  ELSE resolveWith([q EXCEPT !.secondary = "succeeded"],
                   WithMetadata(validated.v,
                                secondaryMetadata(q.calls[Len(q.calls)] \o "-fallback")))

\* tryFallbackService after the provider returned text
tryFallbackService_resume(q, text) ==
  IF text = <<>> THEN tryFallbackService_catch(threw(q, "call"))
  ELSE tryFallbackService_reply(q, parseAndEnhance[text, q.userInput])

\* init(), started by the constructor, completes: a client for every key
Initialize ==
  /\ ~isInitialized
  /\ geminiService' = geminiApiKey
  /\ openaiService' = openaiApiKey
  /\ isInitialized' = TRUE
  /\ aiPrompts' = TRUE
  /\ UNCHANGED <<geminiApiKey, openaiApiKey, preferredService, requests, pipe>>

\* a request that passed validation invokes generateResponse, which runs to its
\* first provider call, or to its end when no provider can be called
Invoke(r, userInput) ==
  /\ requests[r].pc = "idle"
  /\ geminiService' = (IF isInitialized THEN geminiService ELSE geminiApiKey)
  /\ openaiService' = (IF isInitialized THEN openaiService ELSE openaiApiKey)
  /\ isInitialized' = TRUE
  /\ aiPrompts' = (IF isInitialized THEN aiPrompts ELSE TRUE)
  /\ requests' = [requests EXCEPT
                    ![r] = generateResponse([@ EXCEPT !.posted = userInput, !.status = 0],
                                            UserInputOf(userInput),
                                            geminiService', openaiService')]
  /\ UNCHANGED <<geminiApiKey, openaiApiKey, preferredService, pipe>>

\* router.post('/generate') up to the first await: a body that fails a
\* validation is answered with its status and nothing else happens; any other
\* body invokes generateResponse
PostGenerate(r, userInput) ==
  IF validationStatus(userInput) # 0
  THEN /\ requests[r].pc = "idle"
       /\ requests' = [requests EXCEPT
                         ![r] = [@ EXCEPT !.posted = userInput,
                                          !.status = validationStatus(userInput)]]
       /\ UNCHANGED <<service, pipe>>
  ELSE Invoke(r, userInput)

\* the primary provider returns a text (an empty one makes the call throw)
PrimaryReturns(r, text) ==
  /\ requests[r].pc = "primaryCall"
  /\ requests' = [requests EXCEPT
                    ![r] = generateResponse_resume(
                             [@ EXCEPT !.inFlight = @ \ {requests[r].calls[1]}],
                             text, geminiService, openaiService)]
  /\ UNCHANGED <<service, pipe>>

\* the primary provider call fails
PrimaryThrows(r) ==
  /\ requests[r].pc = "primaryCall"
  /\ requests' = [requests EXCEPT
                    ![r] = generateResponse_catch(
                             threw([@ EXCEPT !.inFlight = @ \ {requests[r].calls[1]}],
                                   "call"),
                             geminiService, openaiService)]
  /\ UNCHANGED <<service, pipe>>

\* the secondary provider returns a text
SecondaryReturns(r, text) ==
  /\ requests[r].pc = "secondaryCall"
  /\ requests' = [requests EXCEPT
                    ![r] = tryFallbackService_resume(
                             [@ EXCEPT !.inFlight =
                                         @ \ {requests[r].calls[Len(requests[r].calls)]}],
                             text)]
  /\ UNCHANGED <<service, pipe>>

\* the secondary provider call fails
SecondaryThrows(r) ==
  /\ requests[r].pc = "secondaryCall"
  /\ requests' = [requests EXCEPT
                    ![r] = tryFallbackService_catch(
                             threw([@ EXCEPT !.inFlight =
                                         @ \ {requests[r].calls[Len(requests[r].calls)]}],
                                   "call"))]
  /\ UNCHANGED <<service, pipe>>

Next ==
  \/ Initialize
  \/ \E r \in Requests, userInput \in PostedInputs : PostGenerate(r, userInput)
  \/ \E r \in Requests, text \in ProviderTexts : PrimaryReturns(r, text)
  \/ \E r \in Requests : PrimaryThrows(r)
  \/ \E r \in Requests, text \in ProviderTexts : SecondaryReturns(r, text)
  \/ \E r \in Requests : SecondaryThrows(r)

Spec == Init /\ [][Next]_vars

\* every provider call in flight returns or throws in the end
FairSpec ==
  /\ Spec
  /\ \A r \in Requests :
       /\ WF_vars(PrimaryThrows(r) \/ \E text \in ProviderTexts : PrimaryReturns(r, text))
       /\ WF_vars(SecondaryThrows(r) \/ \E text \in ProviderTexts : SecondaryReturns(r, text))

(***************************************************************************)
(* One text through the parser and the enhancer of either service          *)
(***************************************************************************)

PipeInit ==
  /\ geminiApiKey = FALSE
  /\ openaiApiKey = FALSE
  /\ geminiService = FALSE
  /\ openaiService = FALSE
  /\ isInitialized = FALSE
  /\ preferredService = "openai"
  /\ aiPrompts = FALSE
  /\ requests = [r \in Requests |-> IdleRequest]
  /\ pipe \in {[service |-> svc, phase |-> "raw", raw |-> text, userInput |-> userInput,
                parsed |-> Undef, result |-> Throw, again |-> Throw,
                stage |-> "none", reply |-> Undef, prompt |-> "none",
                promptTokens |-> 0] :
                 svc \in {"backend", "simplified"}, text \in RawTexts,
                 userInput \in UserInputs}

\* BackendAIService.parseResponse
BackendParse ==
  /\ pipe.service = "backend" /\ pipe.phase = "raw"
  /\ pipe' = [pipe EXCEPT !.phase = IF parseResponse_outcome(pipe.raw).ok
                                    THEN "parsed" ELSE "parseThrown",
                          !.parsed = parseResponse(pipe.raw)]
  /\ UNCHANGED <<service, requests>>

\* BackendAIService.validateAndEnhanceResponse
BackendEnhance ==
  /\ pipe.service = "backend" /\ pipe.phase = "parsed"
  /\ LET result == validateAndEnhanceResponse(pipe.parsed, pipe.userInput)
     IN pipe' = [pipe EXCEPT !.phase = IF result.ok THEN "enhanced" ELSE "thrown",
                             !.result = result]
  /\ UNCHANGED <<service, requests>>

\* BackendAIService.validateAndEnhanceResponse once more, for the same request,
\* on the response it returned
BackendEnhanceAgain ==
  /\ pipe.service = "backend" /\ pipe.phase = "enhanced"
  /\ LET again == validateAndEnhanceResponse(pipe.result.v, pipe.userInput)
     IN pipe' = [pipe EXCEPT !.phase = IF again.ok THEN "again" ELSE "thrownAgain",
                             !.again = again]
  /\ UNCHANGED <<service, requests>>

\* SimplifiedAIService.parseResponse
SimplifiedParse ==
  /\ pipe.service = "simplified" /\ pipe.phase = "raw"
  /\ pipe' = [pipe EXCEPT !.phase = "parsed", !.parsed = S_parseResponse(pipe.raw)]
  /\ UNCHANGED <<service, requests>>

\* SimplifiedAIService.validateAndEnhanceResponse
SimplifiedEnhance ==
  /\ pipe.service = "simplified" /\ pipe.phase = "parsed"
  /\ LET result == S_validateAndEnhanceResponse(pipe.parsed, pipe.userInput)
     IN pipe' = [pipe EXCEPT !.phase = IF result.ok THEN "enhanced" ELSE "thrown",
                             !.result = result]
  /\ UNCHANGED <<service, requests>>

\* generateFallbackResponse of SimplifiedAIService: the pre-authored reply
S_generateFallbackResponse(userInput) ==
  Obj(Put(MkReply(
            Str(<<"FL_a">> \o userInput.nickname \o <<"SFL_b">> \o userInput.topic
                  \o <<"SFL_c">>),
            Str(<<"SFP_a">> \o userInput.nickname \o <<"x">> \o userInput.topic
                  \o <<"SFP_b">> \o userInput.nickname \o <<"SFP_c">>),
            StrArr(<<<<"FB_REF1">>, <<"FB_REF2">>, <<"FB_REF3">>>>),
            Str(<<"FB_CORE">>)).o,
          K_metadata, fallbackMetadata))

\* callFallbackService of SimplifiedAIService after its API call: the enhanced
\* response as it is, or the static reply when something threw
S_callFallbackService(validated, userInput) ==
  IF validated.ok THEN [stage |-> "fallback", reply |-> validated.v]
  ELSE [stage |-> "static", reply |-> S_generateFallbackResponse(userInput)]

\* generateResponse of SimplifiedAIService returns what callFallbackService
\* returned
S_replied(p, out) == [p EXCEPT !.phase = "replied", !.stage = out.stage, !.reply = out.reply]

\* makeAPICall of callPrimaryService throws: the response is not ok
SimplifiedPrimaryThrows ==
  /\ pipe.service = "simplified" /\ pipe.phase = "raw"
  /\ pipe' = [pipe EXCEPT !.phase = "callThrown"]
  /\ UNCHANGED <<service, requests>>

\* callPrimaryService returns the enhanced response and SimplifiedAIService's
\* generateResponse returns it
SimplifiedReturn ==
  /\ pipe.service = "simplified" /\ pipe.phase = "enhanced"
  /\ pipe' = [pipe EXCEPT !.phase = "replied", !.stage = "primary",
                          !.reply = pipe.result.v]
  /\ UNCHANGED <<service, requests>>

\* callPrimaryService threw; callFallbackService gets a text from its API call
\* and generateResponse returns what it returns
SimplifiedFallbackReturns(text) ==
  /\ pipe.service = "simplified" /\ pipe.phase \in {"thrown", "callThrown"}
  /\ pipe' = S_replied(pipe,
                     S_callFallbackService(
                       S_validateAndEnhanceResponse(S_parseResponse(text), pipe.userInput),
                       pipe.userInput))
  /\ UNCHANGED <<service, requests>>

\* callPrimaryService threw and the API call of callFallbackService throws too
SimplifiedFallbackThrows ==
  /\ pipe.service = "simplified" /\ pipe.phase \in {"thrown", "callThrown"}
  /\ pipe' = S_replied(pipe, S_callFallbackService(Throw, pipe.userInput))
  /\ UNCHANGED <<service, requests>>

PipeNext ==
  \/ BackendParse
  \/ BackendEnhance
  \/ BackendEnhanceAgain
  \/ SimplifiedParse
  \/ SimplifiedEnhance
  \/ SimplifiedPrimaryThrows
  \/ SimplifiedReturn
  \/ \E text \in ProviderTexts \ {<<>>} : SimplifiedFallbackReturns(text)
  \/ SimplifiedFallbackThrows

PipeSpec == PipeInit /\ [][PipeNext]_vars

(***************************************************************************)
(* The prompt of one request                                               *)
(***************************************************************************)

\* situations of a few characters, of about the length at which the full
\* prompt reaches the token limit (with the detailed prompts and without), and
\* of the maximum length
ChineseText(k) ==
  Repeat(<<"X100">>, k \div 100) \o Repeat(<<"ZH10">>, (k % 100) \div 10)
    \o Repeat(<<"ZH">>, k % 10)

PromptSituations ==
  { <<"x">> } \cup { ChineseText(k) : k \in {39, 40, 41, 172, 173, 174, 175, 2000} }

PromptInputs ==
  {[nickname |-> <<"Sam">>, topic |-> topic, situation |-> situation] :
     topic \in Topics \cup {<<"OTHERS">>}, situation \in PromptSituations}

\* an initialized service, with the detailed prompts loaded or their file
\* missing, and a request whose prompt is to be chosen
PromptInit ==
  /\ geminiApiKey = FALSE
  /\ openaiApiKey = FALSE
  /\ geminiService = FALSE
  /\ openaiService = FALSE
  /\ isInitialized = TRUE
  /\ preferredService = "openai"
  /\ aiPrompts \in BOOLEAN
  /\ requests = [r \in Requests |-> IdleRequest]
  /\ pipe \in {[IdlePipe EXCEPT !.service = "backend", !.phase = "prompt",
                                !.userInput = userInput] : userInput \in PromptInputs}

\* the start of generateResponse: the prompt to send and its token count
SelectPrompt ==
  /\ pipe.service = "backend" /\ pipe.phase = "prompt"
  /\ LET selected == selectPrompt(pipe.userInput, aiPromptsText(aiPrompts))
     IN pipe' = [pipe EXCEPT !.phase = "selected", !.prompt = selected.variant,
                             !.promptTokens = selected.tokens]
  /\ UNCHANGED <<service, requests>>

PromptNext == SelectPrompt

PromptSpec == PromptInit /\ [][PromptNext]_vars

(***************************************************************************)
(* Properties                                                              *)
(***************************************************************************)

Metadata(reply) == Prop(reply, K_metadata)

NonEmptyString(v) == v.t = "str" /\ v.s # <<>>

NonEmptyList(v) == v.t = "arr" /\ v.a # <<>>

\* the four core fields are non-empty strings and a non-empty list
FieldsComplete(reply) ==
  /\ reply.t = "obj"
  /\ NonEmptyString(Prop(reply, K_letter))
  /\ NonEmptyString(Prop(reply, K_prayer))
  /\ NonEmptyString(Prop(reply, K_core))
  /\ NonEmptyList(Prop(reply, K_refs))

NoRepeats(q) == \A i, j \in 1..Len(q) : i # j => q[i] # q[j]

SecondaryOf(preferred) == IF preferred = "openai" THEN "gemini" ELSE "openai"

BackendEnhanced == pipe.service = "backend" /\ pipe.phase = "enhanced"

BackendFinished == pipe.service = "backend" /\ pipe.phase \in {"enhanced", "thrown"}

SimplifiedFinished == pipe.service = "simplified" /\ pipe.phase \in {"enhanced", "thrown"}

\* C1: every invoked generateResponse eventually resolves with a reply object
\* and never rejects, whichever providers are unavailable, whichever calls fail
\* and whichever texts make the parser or the enhancer throw, in the primary
\* and in the secondary stage.
C1_AlwaysResolves ==
  /\ [](\A r \in Requests : requests[r].outcome # "rejected")
  /\ \A r \in Requests :
       (requests[r].pc # "idle")
         ~> (requests[r].outcome = "resolved" /\ requests[r].reply.t = "obj")

\* a request resolved after both provider calls were made and both stages failed
C1_Witness ==
  \E r \in Requests :
     /\ requests[r].outcome = "resolved" /\ requests[r].reply.t = "obj"
     /\ Len(requests[r].calls) = 2
     /\ requests[r].primary = "failed" /\ requests[r].secondary = "failed"

\* C2: when the primary stage failed and the secondary stage succeeded, the
\* reply's metadata.aiService names the secondary provider as fallback and
\* metadata.fallback is true.
C2_SecondaryTagged ==
  \A r \in Requests :
     (requests[r].pc = "done" /\ requests[r].primary = "failed"
        /\ requests[r].secondary = "succeeded")
       => /\ Prop(Metadata(requests[r].reply), K_aiService)
               = Str(<<SecondaryOf(preferredService) \o "-fallback">>)
          /\ Prop(Metadata(requests[r].reply), K_fallback) = Bool(TRUE)

\* a request answered by the secondary provider after the primary call failed
C2_Witness ==
  \E r \in Requests :
     /\ requests[r].pc = "done" /\ requests[r].primary = "failed"
     /\ requests[r].secondary = "succeeded"
     /\ requests[r].calls = <<"openai", "gemini">>

\* C3: when both stages failed the request resolves with the static reply,
\* tagged aiService "fallback", fallback true and an error text; and a reply
\* tagged "fallback" is returned only after the primary and then the secondary
\* stage have failed.
C3_StaticReply ==
  \A r \in Requests :
     /\ (requests[r].pc = "done" /\ requests[r].primary = "failed"
           /\ requests[r].secondary = "failed")
          => /\ requests[r].outcome = "resolved"
             /\ Prop(Metadata(requests[r].reply), K_aiService) = Str(<<"fallback">>)
             /\ Prop(Metadata(requests[r].reply), K_fallback) = Bool(TRUE)
             /\ NonEmptyString(Prop(Metadata(requests[r].reply), K_error))
             /\ Prop(requests[r].reply, K_core) = Str(<<"FB_CORE">>)
     /\ (requests[r].pc = "done"
           /\ Prop(Metadata(requests[r].reply), K_aiService) = Str(<<"fallback">>))
          => /\ requests[r].primary = "failed" /\ requests[r].secondary = "failed"
             /\ requests[r].stages = <<"PRIMARY", "SECONDARY", "STATIC_FALLBACK">>

\* a request answered with the static reply when no provider has a key
C3_Witness ==
  \E r \in Requests :
     /\ requests[r].pc = "done" /\ requests[r].calls = <<>>
     /\ Prop(Metadata(requests[r].reply), K_aiService) = Str(<<"fallback">>)

\* C4: within one invocation no stage is entered twice, no provider is called
\* twice, and at most two provider calls are made.
C4_NoRetries ==
  \A r \in Requests :
     /\ NoRepeats(requests[r].stages)
     /\ NoRepeats(requests[r].calls)
     /\ Len(requests[r].calls) <= 2

\* a request that went through all three stages and called both providers
C4_Witness ==
  \E r \in Requests :
     /\ requests[r].stages = <<"PRIMARY", "SECONDARY", "STATIC_FALLBACK">>
     /\ requests[r].calls = <<"openai", "gemini">>

\* C5: the providers of one request are tried one after the other: at most one
\* call is in flight, the secondary call is made only after the primary stage
\* failed, and after a primary success no secondary call is ever made.
C5_Sequential ==
  \A r \in Requests :
     /\ Cardinality(requests[r].inFlight) <= 1
     /\ (requests[r].secondary # "none") => requests[r].primary = "failed"
     /\ (Len(requests[r].calls) = 2) => requests[r].primary = "failed"
     /\ (requests[r].primary = "succeeded")
          => (requests[r].calls = <<preferredService>> /\ requests[r].secondary = "none")

\* a request whose secondary call is in flight after its primary call failed
C5_Witness ==
  \E r \in Requests :
     /\ requests[r].pc = "secondaryCall"
     /\ requests[r].inFlight = {"gemini"}
     /\ requests[r].calls = <<"openai", "gemini">>

\* C6: for every raw text, BackendAIService.parseResponse followed by
\* validateAndEnhanceResponse yields a reply whose jesusLetter, guidedPrayer and
\* coreMessage are non-empty strings and whose biblicalReferences is a
\* non-empty list.
C6_BackendFieldsComplete ==
  BackendFinished => (pipe.phase = "enhanced" /\ FieldsComplete(pipe.result.v))

\* C7: for every raw text, SimplifiedAIService.parseResponse followed by
\* validateAndEnhanceResponse yields a reply whose jesusLetter, guidedPrayer and
\* coreMessage are non-empty and whose biblicalReferences is a non-empty list.
C7_SimplifiedFieldsComplete ==
  SimplifiedFinished => (pipe.phase = "enhanced" /\ FieldsComplete(pipe.result.v))

\* C8: after BackendAIService.validateAndEnhanceResponse the letter has at
\* least 350 characters and the prayer at least 300.
C8_LengthFloors ==
  BackendEnhanced
    => /\ StrLen(Prop(pipe.result.v, K_letter).s) >= LetterMinimum
       /\ StrLen(Prop(pipe.result.v, K_prayer).s) >= PrayerMinimum

\* C9: after BackendAIService.validateAndEnhanceResponse the reply has between
\* 5 and 7 biblicalReferences, whatever number the parsed reply had.
C9_ReferenceCount ==
  BackendEnhanced
    => /\ Len(Prop(pipe.result.v, K_refs).a) >= MinRefs
       /\ Len(Prop(pipe.result.v, K_refs).a) <= MaxRefs

\* C10: after BackendAIService.validateAndEnhanceResponse no two entries of
\* biblicalReferences have the same verse.
C10_DistinctVerses ==
  BackendEnhanced
    => \A i, j \in 1..Len(Prop(pipe.result.v, K_refs).a) :
          i # j => Prop(Prop(pipe.result.v, K_refs).a[i], K_verse)
                     # Prop(Prop(pipe.result.v, K_refs).a[j], K_verse)

\* C11: after BackendAIService.validateAndEnhanceResponse the letter never holds
\* the prayer-opening phrase, whatever the upstream letter held.
C11_LetterWithoutPrayerOpening ==
  BackendEnhanced => ~Includes(Prop(pipe.result.v, K_letter).s, <<"PRAY_OPEN">>)

\* C12: after BackendAIService.validateAndEnhanceResponse the prayer starts with
\* the invitation phrase: it is put in front when missing and nothing is put
\* before it afterwards.
C12_PrayerStartsWithInvitation ==
  BackendEnhanced
    => /\ Prop(pipe.result.v, K_prayer).t = "str"
       /\ StartsWith(Prop(pipe.result.v, K_prayer).s, <<"PRAY_OPEN">>)

\* a parsed prayer "x" that came out with the invitation in front of it and the
\* lengthening text behind it
C12_Witness ==
  /\ BackendEnhanced
  /\ Prop(pipe.parsed, K_prayer) = Str(<<"x">>)
  /\ StartsWith(Prop(pipe.result.v, K_prayer).s, PrayerInvitation \o <<"x", "NL">>)

\* the reply meets the thresholds of validateAndEnhanceResponse: letter and
\* prayer long enough, references enough
MeetsThresholds(reply) ==
  /\ StrLen(Prop(reply, K_letter).s) >= LetterMinimum
  /\ StrLen(Prop(reply, K_prayer).s) >= PrayerMinimum
  /\ Len(Prop(reply, K_refs).a) >= MinRefs

SameFields(a, b) == \A k \in {K_letter, K_prayer, K_refs, K_core} : Prop(a, k) = Prop(b, k)

\* C13: validateAndEnhanceResponse applied a second time, for the same request,
\* to a reply it produced that meets the three thresholds leaves the four
\* fields as they were.
C13_EnhancementIdempotent ==
  (pipe.phase \in {"again", "thrownAgain"} /\ MeetsThresholds(pipe.result.v))
    => pipe.again.ok /\ SameFields(pipe.again.v, pipe.result.v)

BackendParsed == pipe.service = "backend" /\ pipe.phase # "raw"

\* C14: BackendAIService.parseResponse never throws: for every raw text, when a
\* stage of the cascade fails the next one takes over and a record is returned.
C14_ParseNeverThrows ==
  BackendParsed => pipe.phase # "parseThrown" /\ pipe.parsed.t = "obj"

\* a text on which the try block threw and for which a record came back
C14_Witness ==
  /\ BackendParsed
  /\ pipe.raw # <<>>
  /\ ~parseResponse_try(pipe.raw).ok
  /\ pipe.parsed.t = "obj"

\* the four fields are present in the record: none is absent or undefined
FieldsPresent(reply) ==
  \A k \in {K_letter, K_prayer, K_refs, K_core} : Prop(reply, k).t # "undef"

\* C15: for every raw text the record BackendAIService.parseResponse returns,
\* before any enhancement, has the four fields present, whichever stage of the
\* cascade produced it.
C15_ParsedFieldsPresent == BackendParsed => FieldsPresent(pipe.parsed)

\* the quoted field name occurs in the text
NamesField(text, name) == Includes(text, <<"Q", name, "Q">>)

NamesNoField(text) ==
  \A name \in {"jesusLetter", "guidedPrayer", "biblicalReferences", "coreMessage"} :
     ~NamesField(text, name)

\* C17: when none of the four quoted field names occurs in the raw text,
\* BackendAIService.parseResponse returns the raw-text fallback: the letter is
\* the prefix of the raw text of at most 800 characters and the other three
\* fields are the fixed defaults of extractContentFromText.
C17_RawTextFallback ==
  (BackendParsed /\ NamesNoField(pipe.raw))
    => pipe.parsed = extractContentFromText(pipe.raw)

\* a field of the request body is missing: left out, or empty
FieldMissing(userInput, k) ==
  Prop(userInput, k).t \in {"undef", "null"} \/ Prop(userInput, k) = Str(<<>>)

\* what the /generate route refuses: one of the three fields is missing, or
\* the situation is longer than 2000 characters
MustBeRefused(userInput) ==
  \/ \E k \in {K_nickname, K_situation, K_topic} : FieldMissing(userInput, k)
  \/ StrLen(Prop(userInput, K_situation).s) > 2000

\* C16: a request to /generate with nickname, situation or topic missing, or
\* with a situation longer than 2000 characters, is answered with status 400
\* and generateResponse is not invoked for it; a request with the three fields
\* and a situation of at most 2000 characters reaches generateResponse.
C16_RouteValidation ==
  [][\A r \in Requests, userInput \in PostedInputs :
       (requests[r].pc = "idle" /\ requests'[r].posted = userInput
          /\ requests'[r] # requests[r])
         => IF MustBeRefused(userInput)
            THEN /\ requests'[r].status = 400
                 /\ requests'[r] = [requests[r] EXCEPT !.posted = userInput, !.status = 400]
                 /\ UNCHANGED service
            ELSE /\ requests'[r].status # 400
                 /\ requests'[r].stages # <<>>
                 /\ requests'[r].userInput = UserInputOf(userInput)]_vars

\* a request with a situation of exactly 2000 characters that reached
\* generateResponse, next to a request refused for a situation of 2001
C16_Witness ==
  \E r, s \in Requests :
     /\ requests[r].pc # "idle"
     /\ StrLen(requests[r].userInput.situation) = 2000
     /\ requests[s].status = 400
     /\ requests[s].stages = <<>>
     /\ Prop(requests[s].posted, K_situation).t = "str"
     /\ StrLen(Prop(requests[s].posted, K_situation).s) = 2001

\* the letter of the enhanced response holds the nickname of the request
LetterNamesUser ==
  /\ Prop(pipe.result.v, K_letter).t = "str"
  /\ Includes(Prop(pipe.result.v, K_letter).s, pipe.userInput.nickname)

\* C18: for every request with a non-empty nickname the letter returned by
\* validateAndEnhanceResponse holds the nickname literally, in
\* BackendAIService as in SimplifiedAIService.
C18_LetterHoldsNickname ==
  (pipe.phase \in {"enhanced", "again", "thrownAgain"} /\ pipe.userInput.nickname # <<>>)
    => LetterNamesUser

\* how many times the atom occurs in the text
Occurrences(text, a) == Cardinality({i \in 1..Len(text) : text[i] = a})

\* the keywords of the list that the situation holds
Matched(keywords, situation) ==
  {keywords[i] : i \in {j \in 1..Len(keywords) : Includes(situation, <<keywords[j]>>)}}

\* a keyword the situation holds is missing from the field only when three
\* sentences of its kind, which start with the given words, were appended
CoveredUpToCap(field, keywords, sentence) ==
  field.t = "str"
    => \A k \in Matched(keywords, pipe.userInput.situation) :
          ~Includes(field.s, <<k>>) => Occurrences(field.s, sentence) = 3

\* C19: after SimplifiedAIService.validateAndEnhanceResponse a person or event
\* keyword of the vocabulary that occurs in the situation is missing from the
\* letter, or from the prayer, only if three sentences of its kind were
\* appended to that field.
C19_CoverageUpToCap ==
  (pipe.service = "simplified" /\ pipe.phase = "enhanced")
    => /\ CoveredUpToCap(Prop(pipe.result.v, K_letter), peopleKeywords, "COV_LP_a")
       /\ CoveredUpToCap(Prop(pipe.result.v, K_letter), eventKeywords, "COV_LE_a")
       /\ CoveredUpToCap(Prop(pipe.result.v, K_prayer), peopleKeywords, "COV_PP_a")
       /\ CoveredUpToCap(Prop(pipe.result.v, K_prayer), eventKeywords, "COV_PE_a")

\* the replies an invocation can resolve with, from what is its own: the
\* userInput posted for it, the providers it called and how its stages ended
OwnReplies(q) ==
  LET userInput == UserInputOf(q.posted)
      validated == {parseAndEnhance[text, userInput] : text \in ProviderTexts \ {<<>>}}
  IN IF q.primary = "succeeded"
     THEN {WithMetadata(v.v, primaryMetadata(q.calls[1])) : v \in {w \in validated : w.ok}}
     ELSE IF q.secondary = "succeeded"
     THEN {WithMetadata(v.v, secondaryMetadata(q.calls[Len(q.calls)] \o "-fallback")) :
             v \in {w \in validated : w.ok}}
     ELSE {generateFallbackResponse(userInput)}

\* C20: two generateResponse invocations on the one service do not interfere,
\* however their steps interleave: the reply of each is determined by its own
\* userInput and the outcomes of its own provider calls, and once
\* initialization has completed no step changes the configuration of the
\* service (preferredService, the provider clients, the prompts, isInitialized).
C20_NoInterference ==
  /\ [](\A r \in Requests :
          requests[r].pc = "done" => requests[r].reply \in OwnReplies(requests[r]))
  /\ [][isInitialized => UNCHANGED service]_vars

\* a request resolved with the static reply while another request, for another
\* topic, has its provider call in flight
C20_Witness ==
  \E r, s \in Requests :
     /\ isInitialized
     /\ requests[r].pc = "done" /\ requests[r].primary = "failed"
     /\ requests[r].secondary = "failed"
     /\ requests[s].pc = "secondaryCall"
     /\ requests[s].userInput.topic # requests[r].userInput.topic

\* the references of the reply are 5 to 7 records, each with a citation and
\* the four texts, no two with the same citation
ReferencesInContract(reply) ==
  LET refs == Prop(reply, K_refs)
  IN /\ refs.t = "arr"
     /\ Len(refs.a) >= 5 /\ Len(refs.a) <= 7
     /\ \A i \in 1..Len(refs.a) :
          /\ refs.a[i].t = "obj"
          /\ \A k \in {K_verse, K_text, K_context, K_meaning, K_application} :
               NonEmptyString(Prop(refs.a[i], k))
     /\ \A i, j \in 1..Len(refs.a) :
          i # j => Prop(refs.a[i], K_verse) # Prop(refs.a[j], K_verse)

\* C21: every reply generateResponse returns, from any stage, the static reply
\* included, has 5 to 7 reference records with pairwise distinct citations.
C21_StaticReplyReferences ==
  \A r \in Requests :
     requests[r].pc = "done" /\ requests[r].outcome = "resolved"
       => ReferencesInContract(requests[r].reply)

\* C22: every reply SimplifiedAIService.generateResponse returns carries the
\* metadata record, and the reply of the fallback call after a failed primary
\* call names the fallback stage in it with fallback true.
C22_SimplifiedMetadata ==
  (pipe.service = "simplified" /\ pipe.phase = "replied")
    => /\ Metadata(pipe.reply).t = "obj"
       /\ pipe.stage = "fallback"
            => /\ Prop(Metadata(pipe.reply), K_fallback) = Bool(TRUE)
               /\ NonEmptyString(Prop(Metadata(pipe.reply), K_aiService))

\* the raw text without its code-fence markers, trimmed
DirectText(raw) == Trim(removeCodeFences(Trim(raw)))

\* C23: when the raw text, without code-fence markers and trimmed, is a valid
\* JSON object, BackendAIService.parseResponse returns exactly the object that
\* parsing it gives; reconstruction, repair and extraction touch only a text
\* whose direct parse failed.
C23_DirectParseFirst ==
  (BackendParsed /\ JSONparse(DirectText(pipe.raw)).ok
     /\ JSONparse(DirectText(pipe.raw)).v.t = "obj")
    => pipe.parsed = JSONparse(DirectText(pipe.raw)).v

\* parseResponse or validateAndEnhanceResponse throws on the text
ProcessingThrows(text, userInput) == ~parseAndEnhance[text, userInput].ok

\* the provider tryFallbackService calls, "none" when it has no client
SecondaryProvider ==
  CASE preferredService = "gemini" /\ openaiService -> "openai"
    [] preferredService = "openai" /\ geminiService -> "gemini"
    [] OTHER -> "none"

\* C24: when the primary provider returns a text on which parseResponse or
\* validateAndEnhanceResponse throws, generateResponse does not reject: it
\* enters the secondary stage and calls the secondary provider (the one with a
\* client), as after a failed provider call; when the same happens to the text
\* of the secondary provider, it resolves with the static reply.
C24_ProcessingErrorsCaught ==
  [][\A r \in Requests, text \in ProviderTexts \ {<<>>} :
       /\ (PrimaryReturns(r, text) /\ ProcessingThrows(text, requests[r].userInput))
            => /\ requests'[r].outcome # "rejected"
               /\ requests'[r].primary = "failed"
               /\ Len(requests'[r].stages) >= 2
               /\ requests'[r].stages[2] = "SECONDARY"
               /\ IF SecondaryProvider # "none"
                  THEN /\ requests'[r].pc = "secondaryCall"
                       /\ requests'[r].calls = Append(requests[r].calls, SecondaryProvider)
                  ELSE /\ requests'[r].outcome = "resolved"
                       /\ requests'[r].reply
                            = generateFallbackResponse(requests[r].userInput)
       /\ (SecondaryReturns(r, text) /\ ProcessingThrows(text, requests[r].userInput))
            => /\ requests'[r].pc = "done"
               /\ requests'[r].outcome = "resolved"
               /\ requests'[r].calls = requests[r].calls
               /\ requests'[r].stages[Len(requests'[r].stages)] = "STATIC_FALLBACK"
               /\ requests'[r].reply = generateFallbackResponse(requests[r].userInput)
    ]_vars

\* the secondary provider has been called because the processing of the
\* primary provider's text threw
C24_Witness ==
  \E r \in Requests :
     /\ requests[r].pc = "secondaryCall"
     /\ requests[r].error = "processing"
     /\ Len(requests[r].calls) = 2

RECURSIVE DecodeLiteral(_)
\* the content of a JSON string literal with \n, \" and \\ decoded, in one
\* pass from the left
DecodeLiteral(v) ==
  IF v = <<>> THEN <<>>
  ELSE IF Head(v) = "BS" /\ Len(v) >= 2
  THEN (CASE v[2] = "n" -> <<"NL">>
          [] v[2] = "Q" -> <<"Q">>
          [] v[2] = "BS" -> <<"BS">>
          [] OTHER -> <<"BS", v[2]>>) \o DecodeLiteral(SubSeq(v, 3, Len(v)))
  ELSE <<Head(v)>> \o DecodeLiteral(Tail(v))

StringFields == {"jesusLetter", "guidedPrayer", "coreMessage"}

\* the test of accumulateJsonChunks for a text that is one chunk of a reply
HasChunk(response) ==
  LET has(name) == Includes(response, QuotedName(name))
  IN \/ has("jesusLetter") /\ ~has("guidedPrayer")
     \/ has("guidedPrayer") /\ ~has("biblicalReferences")
     \/ has("biblicalReferences") /\ ~has("coreMessage")
     \/ has("coreMessage") /\ ~Includes(response, <<"}">>)

\* the value of the field is the decoded content of its string literal in the
\* raw text, which ends at the first quote that no backslash escapes
HoldsDecodedLiteral(parsed, raw, name) ==
  /\ S_matchString(raw, name).found
  /\ parsed.t = "obj"
  /\ Prop(parsed, <<name>>) = Str(DecodeLiteral(S_matchString(raw, name).v))

\* C25: a string field that chunk reconstruction or regex field extraction
\* finds in the raw text is returned with the decoded content of its string
\* literal: the literal ends at the first unescaped quote, and \n, \" and \\
\* are decoded.
C25_ExtractedStringsDecoded ==
  \A name \in StringFields :
     /\ (BackendParsed /\ parseResponse_try(pipe.raw).ok /\ HasChunk(pipe.raw)
           /\ MatchToFirstQuote(pipe.raw, name, "[:\\s]*").found)
          => HoldsDecodedLiteral(pipe.parsed, pipe.raw, name)
     /\ (BackendParsed /\ ~parseResponse_try(pipe.raw).ok
           /\ MatchToFirstQuote(pipe.raw, name, ":\\s*").found)
          => HoldsDecodedLiteral(pipe.parsed, pipe.raw, name)
     /\ (pipe.service = "simplified" /\ pipe.parsed.t # "undef"
           /\ ~JSONparse(S_stripFences(S_stripFences(Trim(pipe.raw), TRUE), FALSE)).ok
           /\ S_matchString(pipe.raw, name).found)
          => HoldsDecodedLiteral(pipe.parsed, pipe.raw, name)

\* the text of the field whose string the end of s cuts off: what follows the
\* opening quote
OpenTail(s, name) ==
  LET i == CHOOSE i \in 1..Len(s) :
             /\ At(s, i, QuotedName(name))
             /\ LET j == SepWsColon(s, i + 3)
                IN j >= 1 /\ j <= Len(s) /\ s[j] = "Q" /\ Next1(s, j + 1, "Q") = 0
  IN SubSeq(s, SepWsColon(s, i + 3) + 1, Len(s))

\* C26: for a text that starts a JSON object and ends inside the string of a
\* field, BackendAIService.parseResponse returns, for that field, the text
\* received so far, not a canned default.
C26_TruncatedFieldSalvaged ==
  \A name \in StringFields :
     (BackendParsed /\ pipe.raw # <<>> /\ Head(pipe.raw) = "{"
        /\ OpenStringField(pipe.raw, name))
       => /\ pipe.parsed.t = "obj"
          /\ Prop(pipe.parsed, <<name>>) = Str(DecodeLiteral(OpenTail(pipe.raw, name)))

\* the token estimate of the full prompt of the request whose prompt is chosen
FullPromptTokens ==
  estimateTokens(buildFullPrompt(pipe.userInput, aiPromptsText(aiPrompts)))

\* C27: the compact prompt is sent exactly when the token estimate of the full
\* prompt is strictly greater than 800 (at 800 or less the full prompt is
\* sent), and the token count recorded is the estimate of the prompt sent.
C27_CompactAboveLimit ==
  pipe.phase = "selected"
    => /\ pipe.prompt \in {"compact", "full"}
       /\ pipe.prompt = "compact" <=> FullPromptTokens > 800
       /\ pipe.promptTokens
            = IF pipe.prompt = "compact"
              THEN estimateTokens(buildCompactPrompt(pipe.userInput))
              ELSE FullPromptTokens

\* a full prompt of exactly 800 tokens has been chosen
C27_Witness ==
  pipe.phase = "selected" /\ FullPromptTokens = 800 /\ pipe.prompt = "full"

\* C28: the secondary provider is sent the prompt variant the primary provider
\* was sent: compact when the primary call sent the compact prompt.
C28_SecondarySamePrompt ==
  \A r \in Requests :
     Len(requests[r].sent) >= 2 => requests[r].sent[2] = requests[r].sent[1]

\* the stage that produced the reply of a resolved request
ProducingStage(q) == q.stages[Len(q.stages)]

\* C29: in every reply of generateResponse, metadata.fallback is true exactly
\* when another stage than the primary produced the reply, and
\* metadata.aiService names the producing stage: the provider for the primary
\* stage, "<provider>-fallback" for the secondary, "fallback" for the static.
C29_FallbackFlagMatchesStage ==
  \A r \in Requests :
     (requests[r].pc = "done" /\ requests[r].outcome = "resolved")
       => /\ Metadata(requests[r].reply).t = "obj"
          /\ (Prop(Metadata(requests[r].reply), K_fallback) = Bool(TRUE))
               <=> (ProducingStage(requests[r]) # "PRIMARY")
          /\ Prop(Metadata(requests[r].reply), K_aiService)
               = CASE ProducingStage(requests[r]) = "PRIMARY"
                        -> Str(<<requests[r].calls[1]>>)
                   [] ProducingStage(requests[r]) = "SECONDARY"
                        -> Str(<<requests[r].calls[Len(requests[r].calls)] \o "-fallback">>)
                   [] OTHER -> Str(<<"fallback">>)

\* one request answered by the primary stage, without the flag, and another
\* answered by a later stage, with it
C29_Witness ==
  \E r, s \in Requests :
     /\ requests[r].pc = "done" /\ requests[r].outcome = "resolved"
     /\ ProducingStage(requests[r]) = "PRIMARY"
     /\ Prop(Metadata(requests[r].reply), K_fallback) = Undef
     /\ requests[s].pc = "done" /\ requests[s].outcome = "resolved"
     /\ ProducingStage(requests[s]) = "SECONDARY"
     /\ Prop(Metadata(requests[s].reply), K_fallback) = Bool(TRUE)

\* the service holds a client for the provider
Configured(provider) == IF provider = "gemini" THEN geminiService ELSE openaiService

\* C30: no provider without a client is ever called; when the preferred
\* provider has none, the primary stage fails without a call and the other
\* provider, if it has a client, is called as secondary; when neither has one,
\* generateResponse returns the static reply after no provider call at all.
C30_UnconfiguredNeverCalled ==
  \A r \in Requests :
     requests[r].pc # "idle"
       => /\ \A i \in 1..Len(requests[r].calls) : Configured(requests[r].calls[i])
          /\ ~Configured(preferredService)
               => /\ requests[r].primary = "failed"
                  /\ requests[r].stages[1] = "PRIMARY"
                  /\ requests[r].stages[2] = "SECONDARY"
                  /\ IF Configured(SecondaryOf(preferredService))
                     THEN requests[r].calls = <<SecondaryOf(preferredService)>>
                     ELSE /\ requests[r].calls = <<>>
                          /\ requests[r].pc = "done"
                          /\ requests[r].outcome = "resolved"
                          /\ requests[r].reply
                               = generateFallbackResponse(requests[r].userInput)

\* the preferred provider has no client, no call went to it, and the other
\* provider has been called as secondary
C30_Witness ==
  \E r \in Requests :
     /\ ~Configured(preferredService)
     /\ requests[r].pc = "secondaryCall"
     /\ requests[r].calls = <<SecondaryOf(preferredService)>>
     /\ requests[r].error = "unavailable"

=============================================================================
